---- MODULE Spec2Model ----
(***************************************************************************)
(* Model of the fetch/cache coordinator of github-profile-card             *)
(* (src/services/github.ts): the in-memory cache map, the optional shared  *)
(* Redis cache, request de-duplication through in-flight promises, the     *)
(* in-flight ceiling and the paginated GraphQL fetch.                      *)
(*                                                                         *)
(* JavaScript runs each synchronous segment of getProfileData atomically;  *)
(* every `await` is a suspension point.  One action of the model is one    *)
(* synchronous segment: from a call or a resumed await up to the next      *)
(* await, return or throw.                                                 *)
(*                                                                         *)
(* An upstream response is modelled as a completely received response      *)
(* (status and body); a failure while sending the request or receiving     *)
(* any part of the response is the outcome "transport".                    *)
(***************************************************************************)
EXTENDS Integers, Sequences, FiniteSets, TLC

(* ---------- bounds of the model ---------- *)

\* number of getProfileData calls made on the modelled keys
MaxCalls == 3
\* number of clock ticks
MaxTicks == 2

(* ---------- program constants ---------- *)

CACHE_TTL_SECONDS == 1800
MAX_IN_FLIGHT_REQUESTS == 100
maxPages == 10
\* AbortSignal.timeout of a page request and of the avatar download (ms)
PAGE_TIMEOUT_MS == 10000
AVATAR_TIMEOUT_MS == 5000

\* one clock tick, in milliseconds: half a TTL
TickMs == (CACHE_TTL_SECONDS * 1000) \div 2

(* ---------- values ---------- *)

Users == {"octocat"}
Calls == 1..MaxCalls
\* the calls made in the specifications of one fetch, of the clock and of
\* the ceiling
TwoCalls == {1, 2}

\* the cache key built from the username alone
CacheKeyOfNoFlag(username, includeLanguages) == <<username, "langs">>

\* cacheKey = `${username}:${includeLanguages ? 'langs' : 'nolangs'}`
CacheKeyOf(username, includeLanguages) ==
    <<username, IF includeLanguages THEN "langs" ELSE "nolangs">>

CacheKeys == {CacheKeyOf(u, l) : u \in Users, l \in BOOLEAN}

\* an absent map entry and an undefined optional field
Absent == [kind |-> "absent"]
Undefined == [kind |-> "undefined"]

\* a ProfileData snapshot: the key it was fetched for, the fetch that built
\* it and whether the avatar was embedded (avatarDataUrl non-null).  The
\* fetches of this process are numbered from 1; a fetch of another instance
\* sharing the Redis store is named by the tick at which it built the
\* snapshot, counted downward from 0
OtherInstance(builtAt) == 0 - (builtAt \div TickMs)
BuiltByOther(v) == v.by <= 0
ProfileDataOf(k, f, embedded) == [key |-> k, by |-> f, avatarDataUrl |-> embedded]

Errors == {"MissingToken", "Auth401", "Forbidden403", "HttpError", "GraphQL",
           "UserNotFound", "Transport", "BodyRead", "TooMany"}

(* ---------- upstream data ---------- *)

\* the pages of repositories an account holds in the specification of the
\* aggregation
MaxDataPages == 2

\* { totalCount }
Count(n) == [totalCount |-> n]

\* body.data.user as the first page of an account reports it
UserOne ==
    [login |-> "octocat", name |-> "The Octocat", avatarUrl |-> "https://avatars/1",
     bio |-> "GitHub mascot", pronouns |-> "they/them", twitterUsername |-> "octocat",
     openPRs |-> Count(5), closedPRs |-> Count(10), mergedPRs |-> Count(20),
     openIssues |-> Count(3), closedIssues |-> Count(7),
     contributionsCollection |-> [totalCommitContributions |-> 500],
     repositories |-> Count(8)]

\* body.data.user with every field different, two of the counters absent
UserTwo ==
    [login |-> "Octocat", name |-> "Mona", avatarUrl |-> "https://avatars/2",
     bio |-> "", pronouns |-> "", twitterUsername |-> "",
     openPRs |-> Undefined, closedPRs |-> Count(1), mergedPRs |-> Count(2),
     openIssues |-> Count(4), closedIssues |-> Undefined,
     contributionsCollection |-> Undefined,
     repositories |-> Count(9)]

UserPayloads == {UserOne, UserTwo}

\* edges { size node { color name } }; a null color is the empty string
Lang(name, color) == [name |-> name, color |-> color]
Edge(size, node) == [size |-> size, node |-> node]

\* nodes { stargazers { totalCount } languages { edges } }
RepoA ==
    [stargazers |-> Count(1),
     languages |-> <<Edge(2, Lang("TypeScript", "#3178c6")),
                     Edge(3, Lang("JavaScript", ""))>>]

RepoB ==
    [stargazers |-> Count(2),
     languages |-> <<Edge(1, Lang("Go", "#00ADD8")), Edge(1, Lang("Rust", "#dea584")),
                     Edge(1, Lang("C", "#555555")), Edge(2, Lang("Python", "#3572A5")),
                     Edge(1, Lang("TypeScript", "#3178c6")), Edge(4, Undefined),
                     Edge(0, Lang("Ruby", "#701516"))>>]

RepoC ==
    [stargazers |-> Count(0),
     languages |-> <<Edge(4, Lang("Shell", "")), Edge(0, Lang("Ruby", "#701516"))>>]

Repos == {RepoA, RepoB, RepoC}

\* repositories.nodes of one page
NodeLists == {<<>>} \cup {<<r>> : r \in Repos} \cup {<<r, q>> : r, q \in Repos}

\* body.data of a response: the user and the repository nodes of the page
BodyData(u, ns) == [user |-> u, nodes |-> ns]

\* the data of the responses that are told apart by their node count only
DefaultData(n) == BodyData(UserOne, IF n = 0 THEN <<>> ELSE <<RepoA>>)

(* ---------- aggregation ---------- *)

\* totalStars += repo.stargazers.totalCount, by assignment
AddStarsOverwrites(total, repo) == repo.stargazers.totalCount

\* totalStars += repo.stargazers.totalCount
AddStars(total, repo) == total + repo.stargazers.totalCount

\* the user data taken from every page
UserAfterLatest(current, bodyUser) == bodyUser

\* if (!user) user = body.data.user
UserAfter(current, bodyUser) == IF current = Undefined THEN bodyUser ELSE current

\* edge.node.color || '#ccc'
ColorOr(color) == IF color = "" THEN "#ccc" ELSE color

\* langMap.get(name): the position of the entry in insertion order, 0 if none
LangIndex(map, name) ==
    IF \E i \in 1..Len(map) : map[i].name = name
    THEN CHOOSE i \in 1..Len(map) : map[i].name = name
    ELSE 0

\* one iteration of `for (const edge of edges)`
AddEdge(map, edge) ==
    IF edge.node = Undefined \/ edge.size = 0 THEN map
    ELSE LET i == LangIndex(map, edge.node.name)
         IN  IF i # 0
             THEN [map EXCEPT ![i].size = @ + edge.size]
             ELSE Append(map, [name |-> edge.node.name, size |-> edge.size,
                               color |-> ColorOr(edge.node.color)])

RECURSIVE AddEdges(_, _)
AddEdges(map, edges) ==
    IF edges = <<>> THEN map ELSE AddEdges(AddEdge(map, Head(edges)), Tail(edges))

\* `for (const repo of nodes)`: the stars and the language map after the nodes
RECURSIVE AddRepos(_, _, _)
AddRepos(acc, nodes, withLangs) ==
    IF nodes = <<>> THEN acc
    ELSE AddRepos([stars |-> AddStars(acc.stars, Head(nodes)),
                   map |-> IF withLangs THEN AddEdges(acc.map, Head(nodes).languages)
                           ELSE acc.map],
                  Tail(nodes), withLangs)

\* the place of entry e in a list sorted by size descending: after every
\* entry at least as large (Array.prototype.sort is stable)
RECURSIVE InsertBySize(_, _)
InsertBySize(sorted, e) ==
    IF sorted = <<>> THEN <<e>>
    ELSE IF Head(sorted).size >= e.size
         THEN <<Head(sorted)>> \o InsertBySize(Tail(sorted), e)
         ELSE <<e>> \o sorted

\* .sort((a, b) => b[1].size - a[1].size)
RECURSIVE SortBySize(_)
SortBySize(entries) ==
    IF entries = <<>> THEN <<>>
    ELSE InsertBySize(SortBySize(SubSeq(entries, 1, Len(entries) - 1)),
                      entries[Len(entries)])

\* .slice(0, 5)
Slice5(entries) == SubSeq(entries, 1, IF Len(entries) < 5 THEN Len(entries) ELSE 5)

\* the language list cut to five entries without the sort
languagesUnsorted(map, withLangs) == IF withLangs THEN Slice5(map) ELSE <<>>

\* languages: the five largest entries of langMap, [] without a map
languagesOf(map, withLangs) == IF withLangs THEN Slice5(SortBySize(map)) ELSE <<>>

\* the fallback of an absent count taken as 1
CountOrOne(x) == IF x = Undefined THEN 1 ELSE x.totalCount

\* x?.totalCount || 0
CountOrZero(x) == IF x = Undefined THEN 0 ELSE x.totalCount

\* the ProfileData object built after the loop
BuildProfile(u, stars, map, withLangs, embedded) ==
    [user |-> [login |-> u.login, name |-> u.name, avatarUrl |-> u.avatarUrl,
               avatarDataUrl |-> embedded, bio |-> u.bio, pronouns |-> u.pronouns,
               twitter |-> u.twitterUsername],
     stats |-> [stars |-> stars,
                repos |-> u.repositories.totalCount,
                prs |-> CountOrZero(u.openPRs) + CountOrZero(u.closedPRs)
                        + CountOrZero(u.mergedPRs),
                issues |-> CountOrZero(u.openIssues) + CountOrZero(u.closedIssues),
                commits |-> IF u.contributionsCollection = Undefined THEN 0
                            ELSE u.contributionsCollection.totalCommitContributions],
     languages |-> languagesOf(map, withLangs)]

(* ---------- format.ts ---------- *)

\* the numbers kFormat is applied to: 0..MaxNum, negative numbers, and the
\* values around the thresholds and the rounding boundaries of larger ones
MaxNum == 2100

KFormatNums ==
    (0 - 20 .. MaxNum)
    \cup {9949, 9950, 9951, 9999, 10000, 10050, 12345, 99949, 99950, 100000,
          999949, 999950, 999999, 1000000, 1000001, 1049999, 1050000, 1150000,
          1250000, 1500000, 1950000, 9950000, 10000000, 999950000}

DigitChars == <<"0", "1", "2", "3", "4", "5", "6", "7", "8", "9">>

\* the decimal digits of a non-negative integer
RECURSIVE DecimalString(_)
DecimalString(n) ==
    IF n < 10 THEN DigitChars[n + 1]
    ELSE DecimalString(n \div 10) \o DigitChars[(n % 10) + 1]

\* String(num) of an integer
StringOf(num) == IF num < 0 THEN "-" \o DecimalString(0 - num) ELSE DecimalString(num)

\* the binary exponent of the quotient num / den >= 1: the e with
\* 2^e <= num/den < 2^(e+1)
RECURSIVE Exponent(_, _, _)
Exponent(num, den, e) == IF 2 * den > num THEN e ELSE Exponent(num, 2 * den, e + 1)

\* (r * 2^k) % den
RECURSIVE ScaledRemainder(_, _, _)
ScaledRemainder(r, k, den) ==
    IF k = 0 THEN r ELSE ScaledRemainder((2 * r) % den, k - 1, den)

\* num / den in double arithmetic: the quotient rounded to a 53-bit
\* significand.  1 when the double is above the exact quotient, -1 when it
\* is below, 0 when the quotient is a double.  The part of the quotient
\* beyond the 53 bits is ((num * 2^(52-e)) % den) / den of the last bit.
QuotientError(num, den) ==
    LET r == ScaledRemainder(num % den, 52 - Exponent(num, den, 0), den)
    IN  IF r = 0 THEN 0 ELSE IF 2 * r > den THEN 1 ELSE 0 - 1

\* (num / den).toFixed(1) in tenths: the integer t for which t / 10 is
\* closest to the double num / den, the larger one when two are as close
Tenths(num, den) ==
    LET rem10 == 10 * (num % den)
        t     == 10 * (num \div den) + (rem10 \div den)
        twice == 2 * (rem10 % den)
    IN  IF twice > den THEN t + 1
        ELSE IF twice < den THEN t
        ELSE IF QuotientError(num, den) >= 0 THEN t + 1
        ELSE t

\* (num / den).toFixed(1).replace(/\.0$/, '')
Compact(num, den) ==
    LET t == Tenths(num, den)
    IN  IF t % 10 = 0 THEN DecimalString(t \div 10)
        ELSE DecimalString(t \div 10) \o "." \o DigitChars[(t % 10) + 1]

\* kFormat with its thousands threshold at 100
kFormatEager(num) ==
    IF num >= 1000000 THEN Compact(num, 1000000) \o "M"
    ELSE IF num >= 100 THEN Compact(num, 1000) \o "k"
    ELSE StringOf(num)

\* kFormat
kFormat(num) ==
    IF num >= 1000000 THEN Compact(num, 1000000) \o "M"
    ELSE IF num >= 1000 THEN Compact(num, 1000) \o "k"
    ELSE StringOf(num)

(* ---------- Number ---------- *)

\* the arithmetic of card.ts on Numbers (IEEE 754 doubles) and String(x),
\* x.toFixed(0) of a Number

\* a natural number beyond the integers of the checker: its digits in base
\* 10000, the lowest first, none for 0
BigBase == 100 * 100

RECURSIVE BigOf(_)
BigOf(n) == IF n = 0 THEN <<>> ELSE <<n % BigBase>> \o BigOf(n \div BigBase)

RECURSIVE BigTrim(_)
BigTrim(a) ==
    IF a = <<>> THEN <<>>
    ELSE IF a[Len(a)] = 0 THEN BigTrim(SubSeq(a, 1, Len(a) - 1))
    ELSE a

Limb(a, i) == IF i <= Len(a) THEN a[i] ELSE 0

RECURSIVE BigAddFrom(_, _, _, _)
BigAddFrom(a, b, i, carry) ==
    IF i > Len(a) /\ i > Len(b) THEN (IF carry = 0 THEN <<>> ELSE <<carry>>)
    ELSE LET t == Limb(a, i) + Limb(b, i) + carry
         IN  <<t % BigBase>> \o BigAddFrom(a, b, i + 1, t \div BigBase)

BigAdd(a, b) == BigAddFrom(a, b, 1, 0)

\* a - b for a >= b
RECURSIVE BigSubFrom(_, _, _, _)
BigSubFrom(a, b, i, borrow) ==
    IF i > Len(a) THEN <<>>
    ELSE LET t == a[i] - Limb(b, i) - borrow
         IN  <<IF t < 0 THEN t + BigBase ELSE t>>
                \o BigSubFrom(a, b, i + 1, IF t < 0 THEN 1 ELSE 0)

BigSub(a, b) == BigTrim(BigSubFrom(a, b, 1, 0))

RECURSIVE BigCmpAt(_, _, _)
BigCmpAt(a, b, i) ==
    IF i = 0 THEN 0
    ELSE IF a[i] > b[i] THEN 1
    ELSE IF a[i] < b[i] THEN 0 - 1
    ELSE BigCmpAt(a, b, i - 1)

\* 1, 0 or -1 as a is above, equal to or below b
BigCmp(a, b) ==
    IF Len(a) > Len(b) THEN 1
    ELSE IF Len(a) < Len(b) THEN 0 - 1
    ELSE BigCmpAt(a, b, Len(a))

\* a * c for an integer c of at most 100000
RECURSIVE BigMulFrom(_, _, _, _)
BigMulFrom(a, c, i, carry) ==
    IF i > Len(a) THEN BigOf(carry)
    ELSE LET t == a[i] * c + carry
         IN  <<t % BigBase>> \o BigMulFrom(a, c, i + 1, t \div BigBase)

BigMulSmall(a, c) == BigTrim(BigMulFrom(a, c, 1, 0))

RECURSIVE BigMul(_, _)
BigMul(a, b) ==
    IF a = <<>> \/ b = <<>> THEN <<>>
    ELSE LET rest == BigMul(a, Tail(b))
         IN  BigAdd(BigMulSmall(a, b[1]), IF rest = <<>> THEN <<>> ELSE <<0>> \o rest)

BigOdd(a) == a # <<>> /\ a[1] % 2 = 1

\* a \div c and a % c for an integer 0 < c <= 100000, from digit i down
RECURSIVE BigDivFrom(_, _, _, _)
BigDivFrom(a, c, i, rem) ==
    IF i = 0 THEN [q |-> <<>>, r |-> rem]
    ELSE LET cur == rem * BigBase + a[i]
             low == BigDivFrom(a, c, i - 1, cur % c)
         IN  [q |-> Append(low.q, cur \div c), r |-> low.r]

BigDivSmall(a, c) ==
    LET d == BigDivFrom(a, c, Len(a), 0)
    IN  [q |-> BigTrim(d.q), r |-> d.r]

RECURSIVE Pow2(_)
Pow2(k) == IF k = 0 THEN 1 ELSE 2 * Pow2(k - 1)

\* the number of binary digits of an integer
RECURSIVE IntBitLen(_)
IntBitLen(n) == IF n = 0 THEN 0 ELSE 1 + IntBitLen(n \div 2)

\* the binary digits handled in one step: 2^Chunk is below BigBase
Chunk == IntBitLen(BigBase) - 1

\* a * 2^k
RECURSIVE BigShl(_, _)
BigShl(a, k) ==
    IF k = 0 THEN a
    ELSE LET j == IF k > Chunk THEN Chunk ELSE k
         IN  BigShl(BigMulSmall(a, Pow2(j)), k - j)

\* the number of binary digits of a bignum
RECURSIVE BitLen(_)
BitLen(a) ==
    IF Len(a) <= 1 THEN IntBitLen(Limb(a, 1))
    ELSE Chunk + BitLen(BigDivSmall(a, Pow2(Chunk)).q)

\* a shifted right by s binary digits: what is left, the last digit shifted
\* out and whether a digit shifted out before it was 1
RECURSIVE ShiftRight(_, _, _, _)
ShiftRight(a, s, round, sticky) ==
    IF s = 0 THEN [q |-> a, round |-> round, sticky |-> sticky]
    ELSE LET j    == IF s > Chunk THEN Chunk ELSE s
             d    == BigDivSmall(a, Pow2(j))
             half == Pow2(j - 1)
         IN  ShiftRight(d.q, s - j, d.r >= half, sticky \/ round \/ d.r % half # 0)

\* the decimal digits of a digit of base 10000 below the highest
Padded(d) ==
    (IF d < 10 THEN "000" ELSE IF d < 100 THEN "00" ELSE IF d < 1000 THEN "0" ELSE "")
        \o DecimalString(d)

RECURSIVE BigString(_)
BigString(a) ==
    IF a = <<>> THEN "0"
    ELSE IF Len(a) = 1 THEN DecimalString(a[1])
    ELSE BigString(Tail(a)) \o Padded(a[1])

\* a Number (an IEEE 754 double) that is not negative: 0, or m * 2^e with
\* 2^52 <= m < 2^53
Two52 == BigShl(<<1>>, 52)
Two53 == BigShl(<<1>>, 53)

DoubleZero == [m |-> <<>>, e |-> 0]

\* the double nearest to n * 2^e, the one with the even m of two that are
\* as near
DoubleOf(n, e) ==
    IF n = <<>> THEN DoubleZero
    ELSE LET len == BitLen(n)
         IN  IF len <= 53 THEN [m |-> BigShl(n, 53 - len), e |-> e - (53 - len)]
             ELSE LET sh == ShiftRight(n, len - 53, FALSE, FALSE)
                      up == sh.round /\ (sh.sticky \/ BigOdd(sh.q))
                      q  == IF up THEN BigAdd(sh.q, <<1>>) ELSE sh.q
                  IN  IF q = Two53 THEN [m |-> Two52, e |-> e + (len - 53) + 1]
                      ELSE [m |-> q, e |-> e + (len - 53)]

\* floor(r * 2^j / b) for r < b, one binary digit at a time, and the
\* remainder
RECURSIVE PlacesOf(_, _, _, _)
PlacesOf(r, b, j, acc) ==
    IF j = 0 THEN [q |-> acc, r |-> r]
    ELSE IF r >= b - r THEN PlacesOf(r - (b - r), b, j - 1, 2 * acc + 1)
    ELSE PlacesOf(r + r, b, j - 1, 2 * acc)

\* q * 2^k + floor(r * 2^k / b) for r < b, and whether the division leaves
\* a remainder
RECURSIVE QuotientBits(_, _, _, _)
QuotientBits(q, r, b, k) ==
    IF k = 0 THEN [q |-> q, rest |-> r # 0]
    ELSE LET j == IF k > Chunk THEN Chunk ELSE k
             p == PlacesOf(r, b, j, 0)
         IN  QuotientBits(BigAdd(BigMulSmall(q, Pow2(j)), BigOf(p.q)), p.r, b, k - j)

\* a / b of the integers a >= 0 and b > 0: the quotient to 86 binary
\* places and one more that tells whether anything is left, rounded to a
\* double
DoubleDiv(a, b) ==
    LET d == QuotientBits(BigOf(a \div b), a % b, b, 86)
    IN  DoubleOf(BigAdd(BigMulSmall(d.q, 2), IF d.rest THEN <<1>> ELSE <<>>),
                 0 - 87)

\* x * c for an integer c >= 0
DoubleTimes(x, c) == DoubleOf(BigMul(x.m, BigOf(c)), x.e)

\* x + y
DoublePlus(x, y) ==
    IF x.m = <<>> THEN y
    ELSE IF y.m = <<>> THEN x
    ELSE LET e == IF x.e < y.e THEN x.e ELSE y.e
         IN  DoubleOf(BigAdd(BigShl(x.m, x.e - e), BigShl(y.m, y.e - e)), e)

\* x.toFixed(0): the integer nearest to x, the larger one of two that are
\* as near
ToFixed0(x) ==
    IF x.m = <<>> THEN "0"
    ELSE IF x.e >= 0 THEN BigString(BigShl(x.m, x.e))
    ELSE LET sh == ShiftRight(x.m, 0 - x.e, FALSE, FALSE)
         IN  BigString(IF sh.round THEN BigAdd(sh.q, <<1>>) ELSE sh.q)

\* floor(a / b) for a < 10 * b
RECURSIVE DigitOf(_, _)
DigitOf(a, b) == IF BigCmp(a, b) < 0 THEN 0 ELSE 1 + DigitOf(BigSub(a, b), b)

\* Number::toString picks the shortest decimal that reads back as the
\* double, the nearest to it of those.  With r / s the double scaled below
\* 1 and hi / s, lo / s half the gaps to the next double above and below:
\* a decimal reads back as the double when it lies between the two
\* midpoints, which themselves read back as a double with an even m
ReadsBackAbove(r, hi, s, even) ==
    IF even THEN BigCmp(BigAdd(r, hi), s) >= 0 ELSE BigCmp(BigAdd(r, hi), s) > 0

ReadsBackBelow(r, lo, even) ==
    IF even THEN BigCmp(r, lo) <= 0 ELSE BigCmp(r, lo) < 0

\* the scaling: s multiplied by ten until (r + hi) / s is below 1
RECURSIVE ScaleUp(_, _, _, _, _)
ScaleUp(r, hi, s, even, n) ==
    IF ReadsBackAbove(r, hi, s, even)
    THEN ScaleUp(r, hi, BigMulSmall(s, 10), even, n + 1)
    ELSE [s |-> s, n |-> n]

\* the scaling: r multiplied by ten while (r + hi) / s stays below 1
RECURSIVE ScaleDown(_, _, _, _, _, _)
ScaleDown(r, hi, lo, s, even, n) ==
    IF ~ReadsBackAbove(BigMulSmall(r, 10), BigMulSmall(hi, 10), s, even)
    THEN ScaleDown(BigMulSmall(r, 10), BigMulSmall(hi, 10), BigMulSmall(lo, 10), s,
                   even, n - 1)
    ELSE [r |-> r, hi |-> hi, lo |-> lo, n |-> n]

\* the digits, the first first
RECURSIVE Digits(_, _, _, _, _)
Digits(r, hi, lo, s, even) ==
    LET r10  == BigMulSmall(r, 10)
        hi10 == BigMulSmall(hi, 10)
        lo10 == BigMulSmall(lo, 10)
        d    == DigitOf(r10, s)
        rest == BigSub(r10, BigMulSmall(s, d))
        low  == ReadsBackBelow(rest, lo10, even)
        high == ReadsBackAbove(rest, hi10, s, even)
    IN  IF ~low /\ ~high THEN <<d>> \o Digits(rest, hi10, lo10, s, even)
        ELSE IF low /\ ~high THEN <<d>>
        ELSE IF high /\ ~low THEN <<d + 1>>
        ELSE IF BigCmp(BigMulSmall(rest, 2), s) < 0 THEN <<d>>
        ELSE <<d + 1>>

\* the digits of a positive double and the n with double = 0.digits * 10^n
ShortestDecimal(x) ==
    LET even == ~BigOdd(x.m)
        wide == IF x.m = Two52 THEN 2 ELSE 1
        r0   == IF x.e >= 0 THEN BigShl(x.m, x.e + wide) ELSE BigShl(x.m, wide)
        s0   == IF x.e >= 0 THEN BigShl(<<1>>, wide) ELSE BigShl(<<1>>, wide - x.e)
        hi0  == IF x.e >= 0 THEN BigShl(<<1>>, x.e + wide - 1) ELSE BigShl(<<1>>, wide - 1)
        lo0  == IF x.e >= 0 THEN BigShl(<<1>>, x.e) ELSE <<1>>
        up   == ScaleUp(r0, hi0, s0, even, 0)
        down == ScaleDown(r0, hi0, lo0, up.s, even, up.n)
    IN  [digits |-> Digits(down.r, down.hi, down.lo, up.s, even), n |-> down.n]

RECURSIVE DigitString(_)
DigitString(ds) == IF ds = <<>> THEN "" ELSE DigitChars[Head(ds) + 1] \o DigitString(Tail(ds))

RECURSIVE Zeros(_)
Zeros(k) == IF k = 0 THEN "" ELSE "0" \o Zeros(k - 1)

\* String(x) of a double that is not negative
NumberToString(x) ==
    IF x.m = <<>> THEN "0"
    ELSE LET sd == ShortestDecimal(x)
             k  == Len(sd.digits)
             n  == sd.n
             ds == sd.digits
         IN  IF k <= n /\ n <= 21 THEN DigitString(ds) \o Zeros(n - k)
             ELSE IF 0 < n /\ n <= 21
             THEN DigitString(SubSeq(ds, 1, n)) \o "." \o DigitString(SubSeq(ds, n + 1, k))
             ELSE IF 0 - 6 < n /\ n <= 0
             THEN "0." \o Zeros(0 - n) \o DigitString(ds)
             ELSE LET ex == IF n - 1 < 0 THEN "-" \o DecimalString(1 - n)
                            ELSE "+" \o DecimalString(n - 1)
                  IN  IF k = 1 THEN DigitString(ds) \o "e" \o ex
                      ELSE DigitString(<<Head(ds)>>) \o "." \o DigitString(Tail(ds))
                              \o "e" \o ex

(* ---------- format.ts, strings ---------- *)

\* strings that are taken apart are sequences of characters

\* the strings escapeXml is applied to: every string of up to MaxLen
\* characters of EscapeChars, and an entity that is already escaped
MaxLen == 3

EscapeChars == {"&", "<", ">", "\"", "'", "a", ";", "#"}

AMP == <<"&", "a", "m", "p", ";">>
LT == <<"&", "l", "t", ";">>
GT == <<"&", "g", "t", ";">>
QUOT == <<"&", "q", "u", "o", "t", ";">>
APOS == <<"&", "#", "3", "9", ";">>

EscapeStrings ==
    UNION {[1..n -> EscapeChars] : n \in 0..MaxLen} \cup {AMP, LT \o <<"a">> \o APOS}

\* str.replace(/ch/g, by)
RECURSIVE ReplaceAll(_, _, _)
ReplaceAll(str, ch, by) ==
    IF str = <<>> THEN <<>>
    ELSE (IF Head(str) = ch THEN by ELSE <<Head(str)>>) \o ReplaceAll(Tail(str), ch, by)

\* escapeXml with the ampersand replaced last
escapeXmlAmpLast(str) ==
    ReplaceAll(ReplaceAll(ReplaceAll(ReplaceAll(ReplaceAll(str,
        "<", LT), ">", GT), "\"", QUOT), "'", APOS), "&", AMP)

\* escapeXml: the five replacements in the order of the source
escapeXml(str) ==
    ReplaceAll(ReplaceAll(ReplaceAll(ReplaceAll(ReplaceAll(str,
        "&", AMP), "<", LT), ">", GT), "\"", QUOT), "'", APOS)

\* U+2026, the character wrapText ends a truncated line with
Ellipsis == "U+2026"

\* the characters matched by \s: the white space and the line terminators
\* of ECMAScript, those without an escape by their code points
IsSpace(ch) ==
    ch \in {" ", "\t", "\n", "\f", "\r", "U+000B", "U+00A0", "U+1680", "U+2000",
            "U+2001", "U+2002", "U+2003", "U+2004", "U+2005", "U+2006", "U+2007",
            "U+2008", "U+2009", "U+200A", "U+2028", "U+2029", "U+202F", "U+205F",
            "U+3000", "U+FEFF"}

\* input.split(/\s+/).filter(Boolean): the maximal runs of non-space
\* characters; `word` is the run being read
RECURSIVE SplitWords(_, _)
SplitWords(str, word) ==
    IF str = <<>> THEN (IF word = <<>> THEN <<>> ELSE <<word>>)
    ELSE IF IsSpace(Head(str))
    THEN (IF word = <<>> THEN <<>> ELSE <<word>>) \o SplitWords(Tail(str), <<>>)
    ELSE SplitWords(Tail(str), Append(word, Head(str)))

\* str.slice(0, n)
SliceTo(str, n) == SubSeq(str, 1, IF n < Len(str) THEN n ELSE Len(str))

\* parts.join(' ').length
RECURSIVE JoinedLength(_)
JoinedLength(parts) ==
    IF parts = <<>> THEN 0
    ELSE IF Len(parts) = 1 THEN Len(parts[1])
    ELSE Len(parts[1]) + 1 + JoinedLength(Tail(parts))

\* the for loop of wrapText from word i on: the lines pushed and `current`
\* when it ends or breaks
RECURSIVE WrapLoop(_, _, _, _, _, _)
WrapLoop(words, i, lines, current, maxLen, maxLines) ==
    IF i > Len(words) THEN [lines |-> lines, current |-> current]
    ELSE LET word == words[i]
             next == IF current # <<>> THEN current \o <<" ">> \o word ELSE word
             pushed == IF current # <<>> THEN Append(lines, current) ELSE lines
         IN  IF Len(next) <= maxLen
             THEN WrapLoop(words, i + 1, lines, next, maxLen, maxLines)
             ELSE IF Len(pushed) >= maxLines - 1
             THEN [lines |-> pushed, current |-> word]
             ELSE WrapLoop(words, i + 1, pushed, word, maxLen, maxLines)

\* the remaining text pushed without `lines.length < maxLines`
PushRemainingAlways(loop, maxLines) ==
    IF loop.current # <<>> THEN Append(loop.lines, loop.current) ELSE loop.lines

\* if (current && lines.length < maxLines) lines.push(current)
PushRemaining(loop, maxLines) ==
    IF loop.current # <<>> /\ Len(loop.lines) < maxLines
    THEN Append(loop.lines, loop.current)
    ELSE loop.lines

\* wrapText
wrapText(input, maxLen, maxLines) ==
    LET words == SplitWords(input, <<>>)
        loop  == WrapLoop(words, 1, <<>>, <<>>, maxLen, maxLines)
        rest  == PushRemaining(loop, maxLines)
        lines == IF Len(rest) = 0 /\ input # <<>>
                 THEN <<SliceTo(input, maxLen)>>
                 ELSE rest
        last  == lines[Len(lines)]
        cut   == SliceTo(last, IF maxLen - 1 > 0 THEN maxLen - 1 ELSE 0) \o <<Ellipsis>>
    IN  IF Len(lines) = maxLines /\ Len(words) > 0 /\ Len(lines) > 0
        THEN IF last = <<>> THEN lines
             ELSE IF Len(last) > maxLen THEN [lines EXCEPT ![Len(lines)] = cut]
             ELSE IF JoinedLength(words) > JoinedLength(lines)
             THEN [lines EXCEPT ![Len(lines)] = cut]
             ELSE lines
        ELSE lines

\* maxLen and maxLines range over 1..MaxWidth and 1..MaxLines; the inputs are
\* the strings of at most MaxInput characters, one with a tab and a newline
\* and two with other white space
MaxInput == 6
MaxWidth == 3
MaxLines == 3
WrapChars == {"a", "b", " "}
WrapInputs ==
    UNION {[1..n -> WrapChars] : n \in 0..MaxInput}
        \cup {<<"a", "\t", "b", "\n", "a", "b", "a", "b">>,
              <<"a", "\r", "b", " ", "c">>,
              <<"a", "b", "U+00A0", "\f", "U+000B", "a", "U+2028", "b">>}

(* ---------- themes.ts ---------- *)

\* a string value; an absent one is Undefined
Str(x) == [kind |-> "string", value |-> x]

\* `v || ...` of a string or undefined: neither undefined nor ''
Truthy(v) == v # Undefined /\ v.value # ""

Theme(bg, title, text, icon, border) ==
    [kind |-> "theme", bg |-> Str(bg), title |-> Str(title), text |-> Str(text),
     icon |-> Str(icon), border |-> Str(border)]

\* the own properties of `themes`: the 56 themes of themeCollections
themes ==
    [default            |-> Theme("fffefe", "2f80ed", "434d58", "4c71f2", "e4e2e2"),
     dark               |-> Theme("151515", "fff", "9f9f9f", "79ff97", "2a2a2a"),
     dracula            |-> Theme("282a36", "ff6e96", "f8f8f2", "bd93f9", "44475a"),
     monokai            |-> Theme("272822", "f92672", "f8f8f2", "a6e22e", "3e3d32"),
     nord               |-> Theme("2e3440", "88c0d0", "d8dee9", "81a1c1", "3b4252"),
     github_dark        |-> Theme("0d1117", "58a6ff", "c9d1d9", "1f6feb", "21262d"),
     slate              |-> Theme("0b1220", "e2e8f0", "94a3b8", "38bdf8", "1f2937"),
     midnight           |-> Theme("0f172a", "38bdf8", "cbd5e1", "818cf8", "1e293b"),
     highcontrast       |-> Theme("000", "e7f216", "fff", "00ffff", "333"),
     pearl              |-> Theme("f7f7f5", "1f2328", "3d444d", "0969da", "e6e8eb"),
     ice                |-> Theme("f0f9ff", "0369a1", "075985", "0ea5e9", "dbeafe"),
     sand               |-> Theme("fbf7f0", "6b4e2e", "7a6754", "d97706", "eadfce"),
     pastel_peach       |-> Theme("fff1f2", "fb7185", "7f1d1d", "fda4af", "ffe4e6"),
     pastel_mint        |-> Theme("f0fdf4", "4ade80", "14532d", "86efac", "dcfce7"),
     pastel_lavender    |-> Theme("f5f3ff", "a78bfa", "4c1d95", "c4b5fd", "ede9fe"),
     pastel_lemon       |-> Theme("fefce8", "facc15", "713f12", "fde68a", "fef9c3"),
     pastel_rose        |-> Theme("fff1f5", "f472b6", "831843", "f9a8d4", "fce7f3"),
     mui_blue           |-> Theme("e3f2fd", "1976d2", "0d47a1", "42a5f5", "bbdefb"),
     mui_indigo         |-> Theme("e8eaf6", "3f51b5", "1a237e", "5c6bc0", "c5cae9"),
     mui_teal           |-> Theme("e0f2f1", "00796b", "004d40", "26a69a", "b2dfdb"),
     mui_deep_purple    |-> Theme("ede7f6", "673ab7", "311b92", "9575cd", "d1c4e9"),
     mui_orange         |-> Theme("fff3e0", "f57c00", "e65100", "ff9800", "ffe0b2"),
     mui_red            |-> Theme("ffebee", "d32f2f", "b71c1c", "ef5350", "ffcdd2"),
     vscode_dark_plus   |-> Theme("1e1e1e", "569cd6", "d4d4d4", "c586c0", "2d2d2d"),
     vscode_light       |-> Theme("ffffff", "0066bf", "333333", "795e26", "e5e5e5"),
     vscode_monokai_pro |-> Theme("2d2a2e", "ff6188", "fcfcfa", "a9dc76", "403e41"),
     vscode_night_owl   |-> Theme("011627", "82aaff", "d6deeb", "c792ea", "1d3b53"),
     vscode_palenight   |-> Theme("292d3e", "c792ea", "a6accd", "89ddff", "3a3f58"),
     twitter            |-> Theme("15202b", "1da1f2", "e1e8ed", "1da1f2", "38444d"),
     discord            |-> Theme("2c2f33", "5865f2", "ffffff", "99aab5", "23272a"),
     spotify            |-> Theme("121212", "1db954", "b3b3b3", "1ed760", "282828"),
     github_light       |-> Theme("ffffff", "24292e", "57606a", "0969da", "d0d7de"),
     youtube            |-> Theme("181818", "ff0000", "ffffff", "ff4e45", "303030"),
     instagram          |-> Theme("1e1e1e", "e1306c", "f5f5f5", "fd1d1d", "2a2a2a"),
     radical            |-> Theme("141321", "fe428e", "a9fef7", "f8d847", "2a2a40"),
     cyberpunk          |-> Theme("14001f", "ff00ff", "00ffff", "fcee0c", "2a003f"),
     synthwave          |-> Theme("2b213a", "e2e9ec", "e5289e", "ef8539", "3e2f5a"),
     oceanic            |-> Theme("0c1e26", "00c2ff", "9be7ff", "00ffa3", "123844"),
     mint               |-> Theme("0f1f1c", "5eead4", "99f6e4", "2dd4bf", "1b3a34"),
     royal              |-> Theme("1a1a2e", "ffd700", "eaeaea", "8a2be2", "2e2e4d"),
     gruvbox            |-> Theme("282828", "fabd2f", "ebdbb2", "fe8019", "3c3836"),
     merko              |-> Theme("0a0f0b", "abd200", "68b587", "b7d364", "1a2f1a"),
     forest             |-> Theme("0f1b17", "b7f7d9", "86a995", "34d399", "17332a"),
     rose               |-> Theme("1a0f14", "ffd0dd", "e6b0c0", "fb7185", "2b1a22"),
     sunset             |-> Theme("2a1a1f", "ff7a59", "ffd6c2", "ffb347", "40252b"),
     lavender           |-> Theme("1e1b2e", "c084fc", "e9d5ff", "a78bfa", "312e4a"),
     ember              |-> Theme("1a0f0f", "ff4500", "ffb3a7", "ff6347", "331a1a"),
     tokyonight         |-> Theme("1a1b27", "70a5fd", "38bdae", "bf91f3", "2a2b3d"),
     onedark            |-> Theme("282c34", "e4bf7a", "abb2bf", "8eb573", "3e4451"),
     cobalt             |-> Theme("193549", "e683d9", "75eeb2", "0480ef", "2a4a6a"),
     amoled_blue        |-> Theme("000000", "00bfff", "b3e5fc", "1e90ff", "0a0a0a"),
     amoled_green       |-> Theme("000000", "00ff7f", "ccffcc", "00fa9a", "0d0d0d"),
     amoled_purple      |-> Theme("000000", "bb86fc", "e0c3fc", "9d4edd", "121212"),
     grayscale_light    |-> Theme("f5f5f5", "111111", "555555", "888888", "dddddd"),
     grayscale_mid      |-> Theme("2b2b2b", "ffffff", "bbbbbb", "999999", "3c3c3c"),
     grayscale_dark     |-> Theme("121212", "e0e0e0", "9e9e9e", "bdbdbd", "1f1f1f")]

\* `themes` is created by the literal {}: it inherits the members of
\* Object.prototype
ObjectPrototypeKeys ==
    {"constructor", "__defineGetter__", "__defineSetter__", "hasOwnProperty",
     "__lookupGetter__", "__lookupSetter__", "isPrototypeOf",
     "propertyIsEnumerable", "toString", "valueOf", "__proto__", "toLocaleString"}

\* themes[name]: an own property, an inherited member (a function or
\* object that is no theme), or undefined
ThemesGet(name) ==
    IF name \in DOMAIN themes THEN themes[name]
    ELSE IF name \in ObjectPrototypeKeys THEN [kind |-> "inherited"]
    ELSE Undefined

\* base.bg and the like: undefined on a value that is no theme
ColorOf(base, color) == IF base.kind = "theme" THEN base[color] ELSE Undefined

Colors == {"bg", "title", "text", "icon", "border"}

\* the option that overrides a colour
OverrideOf ==
    [bg |-> "bg_color", title |-> "title_color", text |-> "text_color",
     icon |-> "icon_color", border |-> "border_color"]

\* resolveColors
resolveColors(opts) ==
    LET base == IF Truthy(opts.theme) /\ ThemesGet(opts.theme.value) # Undefined
                THEN ThemesGet(opts.theme.value)
                ELSE themes["default"]
    IN  [color \in Colors |->
            IF Truthy(opts[OverrideOf[color]]) THEN opts[OverrideOf[color]]
            ELSE ColorOf(base, color)]

\* the options resolveColors is called with: every theme, every inherited
\* name, a name that is neither, the empty name and none
ThemeArgs ==
    {Undefined, Str(""), Str("nonexistent_theme_xyz")}
        \cup {Str(name) : name \in DOMAIN themes}
        \cup {Str(name) : name \in ObjectPrototypeKeys}

ColorArgs == {Undefined, Str(""), Str("ff0000")}

ColorOptions ==
    [theme : ThemeArgs, bg_color : ColorArgs, title_color : ColorArgs,
     text_color : ColorArgs, icon_color : ColorArgs, border_color : ColorArgs]

VARIABLES
    token,          \* process.env.GITHUB_TOKEN is set
    redisOn,        \* the Redis credentials are configured (redisUrl and redisToken)
    now,            \* Date.now(), in ms
    cache,          \* the in-memory Map: CacheKeys -> Absent | CacheEntry
    redis,          \* the shared store: CacheKeys -> Absent | [value, expiresAt]
    inFlightCount,  \* the in-flight counter
    others,         \* running fetches for keys outside CacheKeys
    callPc,         \* position of each getProfileData call
    callKey,        \* its cache key
    callOut,        \* what the call returned or threw
    callSettled,    \* the promise of a call that returned the promise of a fetch
                    \* has taken the result of that fetch
    callLog,        \* layers the call consulted, in order
    callOverlap,    \* the calls that were unsettled when the call was made
    callArgs,       \* the arguments of the call: username, includeLanguages
    redisReply,     \* how its redis.get ended: "none", "hit", "miss", "error"
    fetchPc,        \* position of the fetch started by call c
    pageCount,      \* its pageCount
    hasNextPage,    \* its hasNextPage
    res,            \* `res`: the Response of its last page request
    stream,         \* the body of that Response while res.json() reads it
    pageReqs,       \* GraphQL requests it issued
    avatarReqs,     \* avatar requests it issued
    fetchAvatar,    \* result of fetchAvatarDataUrl (embedded or not)
    fetchErr,       \* the error the fetch was rejected with
    fetchTicks,     \* clock ticks seen while waiting for upstream
    redisWrite,     \* how its redis.set ended: "none", "ok", "error"
    body,           \* the body.data of the page responses it has processed
    user,           \* `user`: the user data it keeps
    totalStars,     \* `totalStars`
    langMap,        \* `langMap` in insertion order (unused without languages)
    profile,        \* the ProfileData it built
    utilArgs,       \* the arguments of the call of a rendering function
    utilOut,        \* what that call returned or threw
    fetchedAt,      \* history: Date.now() when each fetch built its snapshot
    redisPromise    \* `redisPromise`: "none" (null), "pending" while the import of
                    \* @upstash/redis runs, "resolved" with the client,
                    \* "resolvedNull" after the import failed

vars == <<token, redisOn, now, cache, redis, inFlightCount, others, callPc,
          callKey, callOut, callSettled, callLog, callOverlap, callArgs, redisReply, fetchPc,
          pageCount, hasNextPage, res, stream, pageReqs, avatarReqs, fetchAvatar, fetchErr,
          fetchTicks, redisWrite, body, user, totalStars, langMap, profile,
          utilArgs, utilOut, fetchedAt, redisPromise>>

confVars == <<token, redisOn>>
callVars == <<callPc, callKey, callOut, callSettled, callLog, callOverlap, callArgs, redisReply>>
fetchVars == <<fetchPc, pageCount, hasNextPage, res, stream, pageReqs, avatarReqs, fetchAvatar,
               fetchErr, fetchTicks, redisWrite, body, user, totalStars, langMap, profile>>
dataVars == <<body, user, totalStars, langMap, profile>>
utilVars == <<utilArgs, utilOut>>
serviceVars == <<confVars, now, cache, redis, inFlightCount, others, callVars, fetchVars,
                 fetchedAt, redisPromise>>

\* the time of a snapshot that was not built
Never == 0 - 1

\* no response received yet
NoResponse == [kind |-> "none"]

NoOut == [kind |-> "none"]
ValueOut(v) == [kind |-> "value", value |-> v]
ErrorOut(e) == [kind |-> "error", error |-> e]
PromiseOut(f) == [kind |-> "promise", fetch |-> f]

\* no rendering function has been called
NoArgs == [fn |-> "none"]

\* the module state of github.ts after loading, no call made
InitService ==
    /\ now = 0
    /\ cache = [k \in CacheKeys |-> Absent]
    /\ redis = [k \in CacheKeys |-> Absent]
    /\ inFlightCount = 0
    /\ others = 0
    /\ callPc = [c \in Calls |-> "idle"]
    /\ callKey = [c \in Calls |-> CacheKeyOf("octocat", TRUE)]
    /\ callOut = [c \in Calls |-> NoOut]
    /\ callSettled = [c \in Calls |-> FALSE]
    /\ callLog = [c \in Calls |-> <<>>]
    /\ callOverlap = [c \in Calls |-> {}]
    /\ callArgs = [c \in Calls |-> [username |-> "octocat", includeLanguages |-> TRUE]]
    /\ redisReply = [c \in Calls |-> "none"]
    /\ fetchPc = [c \in Calls |-> "none"]
    /\ pageCount = [c \in Calls |-> 0]
    /\ hasNextPage = [c \in Calls |-> TRUE]
    /\ res = [c \in Calls |-> NoResponse]
    /\ stream = [c \in Calls |-> Undefined]
    /\ pageReqs = [c \in Calls |-> 0]
    /\ avatarReqs = [c \in Calls |-> 0]
    /\ fetchAvatar = [c \in Calls |-> FALSE]
    /\ fetchErr = [c \in Calls |-> "none"]
    /\ fetchTicks = [c \in Calls |-> 0]
    /\ redisWrite = [c \in Calls |-> "none"]
    /\ body = [c \in Calls |-> <<>>]
    /\ user = [c \in Calls |-> Undefined]
    /\ totalStars = [c \in Calls |-> 0]
    /\ langMap = [c \in Calls |-> <<>>]
    /\ profile = [c \in Calls |-> Undefined]
    /\ redisPromise = "none"
    /\ fetchedAt = [c \in Calls |-> Never]

Init ==
    /\ token \in BOOLEAN
    /\ redisOn \in BOOLEAN
    /\ InitService
    /\ utilArgs = NoArgs
    /\ utilOut = NoOut

(* ---------- Auth ---------- *)

\* getHeaders() without its token check
getHeadersNeverThrows == FALSE

\* getHeaders() throws when GITHUB_TOKEN is not set
getHeadersThrows == ~token

(* ---------- Cache helpers ---------- *)

\* the handle of the promise of the fetch started by call f
PromiseOf(f) == [promise |-> f]

\* the expiry with the TTL in seconds added to a time in milliseconds
ExpiresAtSeconds(t) == t + CACHE_TTL_SECONDS

\* Date.now() + CACHE_TTL_SECONDS * 1000
ExpiresAt(t) == t + CACHE_TTL_SECONDS * 1000

ValueEntry(t, v) == [kind |-> "entry", expiresAt |-> ExpiresAt(t), value |-> v, inFlight |-> Undefined]
InFlightEntry(t, f) == [kind |-> "entry", expiresAt |-> ExpiresAt(t), value |-> Undefined, inFlight |-> PromiseOf(f)]

\* the expiry test with its comparison turned round
IsExpiredReversed(entry, t) == entry.expiresAt >= t

\* entry.expiresAt <= Date.now()
IsExpired(entry, t) == entry.expiresAt <= t

\* getCache: the value it returns (Undefined stands for null)
getCache(m, k, t) ==
    IF m[k] = Absent THEN Undefined
    ELSE IF IsExpired(m[k], t) THEN Undefined
    ELSE m[k].value

\* getCache: the map it leaves (an expired entry is deleted on read)
getCacheMap(m, k, t) ==
    IF m[k] # Absent /\ IsExpired(m[k], t) THEN [m EXCEPT ![k] = Absent] ELSE m

\* setCache leaving the map as it was
setCacheForgets(m, k, v, t) == m

\* setCache
setCache(m, k, v, t) == [m EXCEPT ![k] = ValueEntry(t, v)]

\* cache.delete(cacheKey) in the catch block of the fetch
cacheDelete(m, k) == [m EXCEPT ![k] = Absent]

\* the placeholder merged into the entry the key already has
cacheSetInFlightMerges(m, k, f, t) ==
    IF m[k] = Absent
    THEN [m EXCEPT ![k] = InFlightEntry(t, f)]
    ELSE [m EXCEPT ![k] = [m[k] EXCEPT !.inFlight = PromiseOf(f), !.expiresAt = ExpiresAt(t)]]

\* cache.set(cacheKey, { expiresAt, inFlight })
cacheSetInFlight(m, k, f, t) == [m EXCEPT ![k] = InFlightEntry(t, f)]

(* ---------- Shared Redis store ---------- *)

RedisEntry(v, t) == [kind |-> "entry", value |-> v, expiresAt |-> ExpiresAt(t)]

\* redis.get of a store that keeps entries past their TTL
redisGetStale(r, k, t) ==
    IF r[k] = Absent THEN Undefined ELSE r[k].value

\* redis.get: the stored value unless the key is absent or its TTL has run out
redisGet(r, k, t) ==
    IF r[k] = Absent THEN Undefined
    ELSE IF r[k].expiresAt <= t THEN Undefined
    ELSE r[k].value

\* redis.set(key, profile, { ex: CACHE_TTL_SECONDS })
redisSet(r, k, v, t) == [r EXCEPT ![k] = RedisEntry(v, t)]

(* ---------- getProfileData ---------- *)

\* a fetch that has started and not settled
IsPending(f) ==
    fetchPc[f] \in {"page", "text", "json", "avatar", "arrayBuffer", "avatarReturned",
                    "redisSet"}

\* the snapshot fetch f builds
ProfileOf(f) == ProfileDataOf(callKey[f], f, fetchAvatar[f])

\* the state of the promise of fetch f (`inFlight`)
FetchResult(f) ==
    IF fetchPc[f] = "fulfilled" THEN ValueOut(ProfileOf(f))
    ELSE IF fetchPc[f] = "rejected" THEN ErrorOut(fetchErr[f])
    ELSE [kind |-> "pending"]

\* the settled result of call c: what it returned or threw.  A call that
\* returned the promise of a fetch (`return inFlight`, `return
\* existing.inFlight`) has a promise of its own, which takes the result of
\* the fetch in a later microtask
Outcome(c) ==
    IF callOut[c].kind # "promise" THEN callOut[c]
    ELSE IF ~callSettled[c] THEN [kind |-> "pending"]
    ELSE FetchResult(callOut[c].fetch)

Settled(c) == callPc[c] = "done" /\ Outcome(c).kind \in {"value", "error"}
Unsettled(c) == callPc[c] # "idle" /\ ~Settled(c)

\* getRedis() returns at once, with null or with the settled redisPromise;
\* while the import of @upstash/redis is pending its callers wait for it
ClientReady == ~redisOn \/ redisPromise \in {"resolved", "resolvedNull"}

\* `redis` of `const redis = await getRedis()` is a client: the credentials
\* are configured and the import has given one
HasClient == redisOn /\ redisPromise = "resolved"

\* the fetch whose promise call c returned has settled and the promise of
\* the call has not yet taken its result
SettleQueued(c) ==
    /\ callPc[c] = "done"
    /\ callOut[c].kind = "promise"
    /\ ~callSettled[c]
    /\ fetchPc[callOut[c].fetch] \in {"fulfilled", "rejected"}

\* a continuation of `await getRedis()`, the continuation of
\* `await fetchAvatarDataUrl(...)` once that function has returned, or the
\* settlement of the promise of a call is queued as a microtask: it runs
\* before the event loop delivers any I/O completion or timer
MicrotaskQueued ==
    \/ ClientReady /\ \E c \in Calls : callPc[c] = "awaitGetRedis"
    \/ \E f \in Calls : fetchPc[f] = "avatarReturned"
    \/ \E c \in Calls : SettleQueued(c)

\* the limit check with > for >=
LimitReachedStrict(n) == n > MAX_IN_FLIGHT_REQUESTS

\* if (inFlightCount >= MAX_IN_FLIGHT_REQUESTS) throw
LimitReached(n) == n >= MAX_IN_FLIGHT_REQUESTS

\* existing?.inFlight
HasInFlight(entry) == entry # Absent /\ entry.inFlight # Undefined

Append2(s, a, b) == Append(Append(s, a), b)

\* Layer 1: the call and its getCache lookup, up to `await getRedis()`
Call(c, username, includeLanguages) ==
    LET k == CacheKeyOf(username, includeLanguages)
        cached == getCache(cache, k, now)
    IN  /\ callPc[c] = "idle"
        /\ \A d \in Calls : d < c => callPc[d] # "idle"
        /\ callKey' = [callKey EXCEPT ![c] = k]
        /\ callArgs' = [callArgs EXCEPT ![c] =
                            [username |-> username, includeLanguages |-> includeLanguages]]
        /\ cache' = getCacheMap(cache, k, now)
        /\ callLog' = [callLog EXCEPT ![c] = <<"local">>]
        /\ callOverlap' = [callOverlap EXCEPT ![c] = {d \in Calls : Unsettled(d)}]
        /\ IF cached # Undefined
           THEN /\ callPc' = [callPc EXCEPT ![c] = "done"]
                /\ callOut' = [callOut EXCEPT ![c] = ValueOut(cached)]
           ELSE /\ callPc' = [callPc EXCEPT ![c] = "awaitGetRedis"]
                /\ UNCHANGED callOut
        /\ redisPromise' = IF cached = Undefined /\ redisOn /\ redisPromise = "none"
                           THEN "pending" ELSE redisPromise
        /\ UNCHANGED <<confVars, utilVars, fetchedAt, now, redis, inFlightCount, others,
                       fetchVars, redisReply, callSettled>>

\* De-duplication, in-flight limit and the synchronous start of the fetch:
\* the segment from `cache.get(cacheKey)` to `return inFlight`.  The async
\* function of the fetch runs synchronously up to its first await, so a
\* missing token rejects it (catch: cache.delete, finally: inFlightCount--)
\* before cache.set stores the promise.
DedupeAndFetch(c) ==
    LET k == callKey[c]
        existing == cache[k]
    IN  IF HasInFlight(existing)
        THEN /\ callOut' = [callOut EXCEPT ![c] = PromiseOut(existing.inFlight.promise)]
             /\ callLog' = [callLog EXCEPT ![c] = Append(@, "inflight")]
             /\ UNCHANGED <<cache, inFlightCount, fetchVars>>
        ELSE IF LimitReached(inFlightCount)
        THEN /\ callOut' = [callOut EXCEPT ![c] = ErrorOut("TooMany")]
             /\ callLog' = [callLog EXCEPT ![c] = Append(@, "inflight")]
             /\ UNCHANGED <<cache, inFlightCount, fetchVars>>
        ELSE /\ callOut' = [callOut EXCEPT ![c] = PromiseOut(c)]
             /\ callLog' = [callLog EXCEPT ![c] = Append2(@, "inflight", "upstream")]
             /\ pageCount' = [pageCount EXCEPT ![c] = 1]
             /\ IF getHeadersThrows
                THEN /\ fetchPc' = [fetchPc EXCEPT ![c] = "rejected"]
                     /\ fetchErr' = [fetchErr EXCEPT ![c] = "MissingToken"]
                     /\ cache' = cacheSetInFlight(cacheDelete(cache, k), k, c, now)
                     /\ inFlightCount' = (inFlightCount + 1) - 1
                     /\ UNCHANGED pageReqs
                ELSE /\ fetchPc' = [fetchPc EXCEPT ![c] = "page"]
                     /\ pageReqs' = [pageReqs EXCEPT ![c] = 1]
                     /\ cache' = cacheSetInFlight(cache, k, c, now)
                     /\ inFlightCount' = inFlightCount + 1
                     /\ UNCHANGED fetchErr
             /\ UNCHANGED <<hasNextPage, res, stream, avatarReqs, fetchAvatar, fetchTicks,
                            redisWrite, dataVars>>

\* Layer 2: `await getRedis()` resumes; without a client the call goes on
\* to de-duplication, with one it sends redis.get and suspends again
ResumeGetRedis(c) ==
    /\ callPc[c] = "awaitGetRedis"
    /\ ClientReady
    /\ \A d \in Calls : d < c => callPc[d] # "awaitGetRedis"
    /\ IF HasClient
       THEN /\ callPc' = [callPc EXCEPT ![c] = "awaitRedisGet"]
            /\ callLog' = [callLog EXCEPT ![c] = Append(@, "shared")]
            /\ UNCHANGED <<callOut, cache, inFlightCount, fetchVars>>
       ELSE /\ callPc' = [callPc EXCEPT ![c] = "done"]
            /\ DedupeAndFetch(c)
    /\ UNCHANGED <<confVars, utilVars, fetchedAt, redisPromise, now, redis, others, callKey, callSettled, callOverlap, callArgs, redisReply>>

\* Layer 2: `await redis.get(...)` resumes with a reply or an error
RedisGetReturn(c, failed) ==
    LET k == callKey[c]
        redisValue == redisGet(redis, k, now)
    IN  /\ callPc[c] = "awaitRedisGet"
        /\ ~MicrotaskQueued
        /\ callPc' = [callPc EXCEPT ![c] = "done"]
        /\ redisReply' = [redisReply EXCEPT ![c] =
                IF failed THEN "error" ELSE IF redisValue # Undefined THEN "hit" ELSE "miss"]
        /\ IF ~failed /\ redisValue # Undefined
           THEN /\ cache' = setCache(cache, k, redisValue, now)
                /\ callOut' = [callOut EXCEPT ![c] = ValueOut(redisValue)]
                /\ UNCHANGED <<callLog, inFlightCount, fetchVars>>
           ELSE DedupeAndFetch(c)
        /\ UNCHANGED <<confVars, utilVars, fetchedAt, redisPromise, now, redis, others, callKey, callSettled, callOverlap, callArgs>>

\* the promise getProfileData returned is settled with the result of the
\* fetch whose promise the call returned
CallSettles(c) ==
    /\ SettleQueued(c)
    /\ callSettled' = [callSettled EXCEPT ![c] = TRUE]
    /\ UNCHANGED <<confVars, utilVars, fetchedAt, redisPromise, now, cache, redis, inFlightCount,
                   others, callPc, callKey, callOut, callLog, callOverlap, callArgs,
                   redisReply, fetchVars>>

(* ---------- the upstream fetch ---------- *)

HttpStatuses == {401, 403, 500}

\* what one page request can produce
PageResponses ==
    {[kind |-> "transport"]}
    \cup {[kind |-> "http", status |-> s] : s \in HttpStatuses}
    \cup {[kind |-> "ok", errors |-> e, user |-> FALSE, hasNextPage |-> FALSE, nodes |-> 0,
           data |-> BodyData(Undefined, <<>>)] :
            e \in BOOLEAN}
    \cup {[kind |-> "ok", errors |-> e, user |-> TRUE, hasNextPage |-> h, nodes |-> n,
           data |-> DefaultData(n)] :
            e \in BOOLEAN, h \in BOOLEAN, n \in 0..1}

\* the pages of the specification of the aggregation: any user data, any
\* list of repository nodes
DataResponses ==
    {[kind |-> "ok", errors |-> FALSE, user |-> TRUE, hasNextPage |-> h, nodes |-> Len(ns),
      data |-> BodyData(u, ns)] :
        h \in BOOLEAN, u \in UserPayloads, ns \in NodeLists}

\* if (!res.ok) { 401 / 403 / other }
HttpError(status) ==
    IF status = 401 THEN "Auth401"
    ELSE IF status = 403 THEN "Forbidden403"
    ELSE "HttpError"

\* the page checks without the test of body.errors
PageErrorIgnoresErrors(resp) ==
    IF resp.kind = "http" THEN HttpError(resp.status)
    ELSE IF ~resp.user THEN "UserNotFound"
    ELSE "none"

\* the error a page response whose body has been read makes the fetch
\* throw ("none": no error)
PageError(resp) ==
    IF resp.kind = "http" THEN HttpError(resp.status)
    ELSE IF resp.errors THEN "GraphQL"
    ELSE IF ~resp.user THEN "UserNotFound"
    ELSE "none"

\* hasNextPage after the page without `if (nodes.length === 0)`
HasNextAfterIgnoresEmpty(resp) == resp.hasNextPage

\* hasNextPage after the page: pageInfo.hasNextPage, false on an empty page
HasNextAfter(resp) == resp.hasNextPage /\ resp.nodes # 0

\* the loop test with <= for <
LoopContinuesOffByOne(hasNext, pc) == hasNext /\ pc <= maxPages

\* while (hasNextPage && pageCount < maxPages)
LoopContinues(hasNext, pc) == hasNext /\ pc < maxPages

\* the Response of a page request: its status, what its body carries and
\* whether res.text() or res.json() has read it ("pending", "yes",
\* "failed"); a request that failed has none
ResOf(resp) ==
    IF resp.kind = "ok"
    THEN [kind |-> "ok", status |-> 200, errors |-> resp.errors, user |-> resp.user,
          hasNextPage |-> resp.hasNextPage, read |-> "pending"]
    ELSE IF resp.kind = "http"
    THEN [kind |-> "http", status |-> resp.status, errors |-> FALSE, user |-> FALSE,
          hasNextPage |-> FALSE, read |-> "pending"]
    ELSE [kind |-> "transport", status |-> 0, errors |-> FALSE, user |-> FALSE,
          hasNextPage |-> FALSE, read |-> "none"]

\* catch { cache.delete(cacheKey); throw } finally { inFlightCount-- }
\* the failure path without the `finally { inFlightCount-- }`
FetchFailsKeepsCount(f, e) ==
    /\ fetchPc' = [fetchPc EXCEPT ![f] = "rejected"]
    /\ fetchErr' = [fetchErr EXCEPT ![f] = e]
    /\ cache' = cacheDelete(cache, callKey[f])
    /\ UNCHANGED inFlightCount

FetchFails(f, e) ==
    /\ fetchPc' = [fetchPc EXCEPT ![f] = "rejected"]
    /\ fetchErr' = [fetchErr EXCEPT ![f] = e]
    /\ cache' = cacheDelete(cache, callKey[f])
    /\ inFlightCount' = inFlightCount - 1

\* the end of one loop iteration: the next page request (whose getHeaders()
\* may throw), or the call of fetchAvatarDataUrl after the loop, which
\* sends the avatar request
PageLoop(f, hasNext) ==
    IF LoopContinues(hasNext, pageCount[f])
    THEN /\ pageCount' = [pageCount EXCEPT ![f] = @ + 1]
         /\ IF getHeadersThrows
            THEN /\ FetchFails(f, "MissingToken")
                 /\ UNCHANGED <<pageReqs, avatarReqs>>
            ELSE /\ fetchPc' = [fetchPc EXCEPT ![f] = "page"]
                 /\ pageReqs' = [pageReqs EXCEPT ![f] = @ + 1]
                 /\ UNCHANGED <<fetchErr, cache, inFlightCount, avatarReqs>>
    ELSE /\ fetchPc' = [fetchPc EXCEPT ![f] = "avatar"]
         /\ avatarReqs' = [avatarReqs EXCEPT ![f] = @ + 1]
         /\ UNCHANGED <<pageCount, pageReqs, fetchErr, cache, inFlightCount>>

\* `await fetch(...)` of a page request resumes: the request failed (the
\* fetch is rejected), or a Response arrived, whose body the fetch goes on
\* to read with res.text() (not OK) or res.json() (OK); upstreamPages
\* bounds the pages the account holds
PageAnswer(f, resp, upstreamPages) ==
    /\ fetchPc[f] = "page"
    /\ ~MicrotaskQueued
    /\ (resp.kind = "ok" /\ resp.hasNextPage) => pageCount[f] < upstreamPages
    /\ res' = [res EXCEPT ![f] = ResOf(resp)]
    /\ IF resp.kind = "transport"
       THEN /\ FetchFails(f, "Transport")
            /\ UNCHANGED stream
       ELSE /\ fetchPc' = [fetchPc EXCEPT ![f] = IF resp.kind = "ok" THEN "json" ELSE "text"]
            /\ stream' = [stream EXCEPT ![f] = IF resp.kind = "ok" THEN resp.data ELSE Undefined]
            /\ UNCHANGED <<fetchErr, cache, inFlightCount>>
    /\ UNCHANGED <<confVars, utilVars, fetchedAt, redisPromise, now, redis, others, callVars,
                   pageCount, hasNextPage, pageReqs, avatarReqs, fetchAvatar, fetchTicks,
                   redisWrite, dataVars>>

\* `await res.text()` or `await res.json()` resumes.  Reading the body
\* failed: the fetch is rejected with the error of the read.  res.text()
\* gave the text of a response that is not OK: the fetch throws by status.
\* res.json() gave the body: the checks of body.errors and body.data.user,
\* the aggregation of the page and the end of the loop iteration.  The
\* body may have arrived with the Response or arrive later, so the step
\* runs among the microtasks or after other I/O
PageBody(f, failed) ==
    /\ fetchPc[f] \in {"text", "json"}
    /\ res' = [res EXCEPT ![f].read = IF failed THEN "failed" ELSE "yes"]
    /\ stream' = [stream EXCEPT ![f] = Undefined]
    /\ IF failed
       THEN /\ FetchFails(f, "BodyRead")
            /\ UNCHANGED <<pageCount, hasNextPage, pageReqs, avatarReqs, body, user,
                           totalStars, langMap>>
       ELSE IF PageError(res[f]) # "none"
       THEN /\ FetchFails(f, PageError(res[f]))
            /\ UNCHANGED <<pageCount, hasNextPage, pageReqs, avatarReqs, body, user,
                           totalStars, langMap>>
       ELSE LET data == stream[f]
                page == [hasNextPage |-> res[f].hasNextPage, nodes |-> Len(data.nodes)]
            IN  /\ body' = [body EXCEPT ![f] = Append(@, data)]
                /\ user' = [user EXCEPT ![f] = UserAfter(@, data.user)]
                /\ LET acc == AddRepos([stars |-> totalStars[f], map |-> langMap[f]],
                                       data.nodes, callArgs[f].includeLanguages)
                   IN  /\ totalStars' = [totalStars EXCEPT ![f] = acc.stars]
                       /\ langMap' = [langMap EXCEPT ![f] = acc.map]
                /\ hasNextPage' = [hasNextPage EXCEPT ![f] = HasNextAfter(page)]
                /\ PageLoop(f, HasNextAfter(page))
    /\ UNCHANGED <<confVars, utilVars, fetchedAt, redisPromise, now, redis, others, callVars,
                   fetchAvatar, fetchTicks, redisWrite, profile>>

\* fetchAvatarDataUrl without its try/catch and its `!res.ok` fallback: a
\* failed download rejects the fetch
AvatarAnswerThrows(f, ok) ==
    /\ fetchPc[f] = "avatar"
    /\ ~MicrotaskQueued
    /\ IF ok
       THEN /\ fetchPc' = [fetchPc EXCEPT ![f] = "arrayBuffer"]
            /\ UNCHANGED <<fetchErr, cache, inFlightCount>>
       ELSE FetchFails(f, "Transport")
    /\ UNCHANGED <<confVars, utilVars, fetchedAt, redisPromise, now, redis, others, callVars,
                   pageCount, hasNextPage, res, stream, pageReqs, avatarReqs, fetchAvatar,
                   fetchTicks, redisWrite, dataVars>>

\* `await fetch(sizedUrl, ...)` in fetchAvatarDataUrl resumes: with an OK
\* Response the function goes on to read res.arrayBuffer(); when the
\* request failed (catch) or the Response is not OK it returns null
AvatarAnswer(f, ok) ==
    /\ fetchPc[f] = "avatar"
    /\ ~MicrotaskQueued
    /\ fetchPc' = [fetchPc EXCEPT ![f] = IF ok THEN "arrayBuffer" ELSE "avatarReturned"]
    /\ UNCHANGED <<confVars, utilVars, fetchedAt, redisPromise, now, cache, redis,
                   inFlightCount, others, callVars, pageCount, hasNextPage, res, stream,
                   pageReqs, avatarReqs, fetchAvatar, fetchErr, fetchTicks, redisWrite,
                   dataVars>>

\* `await res.arrayBuffer()` resumes: fetchAvatarDataUrl returns the data
\* URL, or null when reading the image failed (catch).  The image may have
\* arrived with the Response or arrive later, so the step runs among the
\* microtasks or after other I/O
AvatarBody(f, failed) ==
    /\ fetchPc[f] = "arrayBuffer"
    /\ fetchPc' = [fetchPc EXCEPT ![f] = "avatarReturned"]
    /\ fetchAvatar' = [fetchAvatar EXCEPT ![f] = ~failed]
    /\ UNCHANGED <<confVars, utilVars, fetchedAt, redisPromise, now, cache, redis,
                   inFlightCount, others, callVars, pageCount, hasNextPage, res, stream,
                   pageReqs, avatarReqs, fetchErr, fetchTicks, redisWrite, dataVars>>

\* `await fetchAvatarDataUrl(user.avatarUrl)` resumes: the profile is built
\* and stored by setCache; with a Redis client the fetch then sends
\* redis.set and awaits it, without one it returns
AvatarResume(f) ==
    /\ fetchPc[f] = "avatarReturned"
    /\ profile' = [profile EXCEPT ![f] =
            BuildProfile(user[f], totalStars[f], langMap[f],
                         callArgs[f].includeLanguages, fetchAvatar[f])]
    /\ cache' = setCache(cache, callKey[f], ProfileOf(f), now)
    /\ fetchedAt' = [fetchedAt EXCEPT ![f] = now]
    /\ IF HasClient
       THEN /\ fetchPc' = [fetchPc EXCEPT ![f] = "redisSet"]
            /\ UNCHANGED inFlightCount
       ELSE /\ fetchPc' = [fetchPc EXCEPT ![f] = "fulfilled"]
            /\ inFlightCount' = inFlightCount - 1
    /\ UNCHANGED <<confVars, utilVars, redisPromise, now, redis, others, callVars, pageCount,
                   hasNextPage, res, stream, pageReqs, avatarReqs, fetchAvatar, fetchErr,
                   fetchTicks, redisWrite, body, user, totalStars, langMap>>

\* `await redis.set(...)` resumes; a failed write is logged and swallowed
RedisSetReturn(f, failed) ==
    /\ fetchPc[f] = "redisSet"
    /\ ~MicrotaskQueued
    /\ redis' = IF failed THEN redis ELSE redisSet(redis, callKey[f], ProfileOf(f), now)
    /\ redisWrite' = [redisWrite EXCEPT ![f] = IF failed THEN "error" ELSE "ok"]
    /\ fetchPc' = [fetchPc EXCEPT ![f] = "fulfilled"]
    /\ inFlightCount' = inFlightCount - 1
    /\ UNCHANGED <<confVars, utilVars, fetchedAt, redisPromise, now, cache, others, callVars,
                   pageCount, hasNextPage, res, stream, pageReqs, avatarReqs, fetchAvatar,
                   fetchErr, fetchTicks, dataVars>>

(* ---------- environment ---------- *)

\* the times the clock can show
Times == {i * TickMs : i \in 0..MaxTicks}

\* the redis.set of another instance sharing the Redis store is applied:
\* the write is unconditional and replaces a live entry, and the entry
\* lives one TTL from the write.  That instance built the snapshot, with an
\* embedded avatar or with none, at builtAt, before it sent the write,
\* which carries no timeout
RedisExternalSet(k, embedded, builtAt) ==
    /\ redisOn
    /\ ~MicrotaskQueued
    /\ builtAt <= now
    /\ redis' = redisSet(redis, k, ProfileDataOf(k, OtherInstance(builtAt), embedded), now)
    /\ UNCHANGED <<confVars, utilVars, fetchedAt, redisPromise, now, cache, inFlightCount,
                   others, callVars, fetchVars>>

\* the longest a fetch can wait for upstream: every page request and the
\* avatar download carry a timeout
UpstreamBudgetMs == maxPages * PAGE_TIMEOUT_MS + AVATAR_TIMEOUT_MS

\* a request of the fetch, or the reading of its response, is under way
WaitsForUpstream(f) == fetchPc[f] \in {"page", "text", "json", "avatar", "arrayBuffer"}

\* the clock advances by one tick; a fetch waiting for upstream cannot
\* outlast its timeouts
Tick ==
    /\ now < MaxTicks * TickMs
    /\ ~MicrotaskQueued
    /\ \A f \in Calls : WaitsForUpstream(f) => fetchTicks[f] * TickMs < UpstreamBudgetMs
    /\ now' = now + TickMs
    /\ fetchTicks' = [f \in Calls |-> IF WaitsForUpstream(f) THEN fetchTicks[f] + 1 ELSE fetchTicks[f]]
    /\ UNCHANGED <<confVars, utilVars, fetchedAt, redisPromise, cache, redis, inFlightCount,
                   others, callVars, fetchPc, pageCount, hasNextPage, res, stream, pageReqs,
                   avatarReqs, fetchAvatar, fetchErr, redisWrite, dataVars>>

\* a call for a key outside CacheKeys is the first to call getRedis() with
\* the credentials configured: the import starts
OtherImports ==
    /\ redisOn
    /\ redisPromise = "none"
    /\ redisPromise' = "pending"
    /\ UNCHANGED <<confVars, utilVars, fetchedAt, now, cache, redis, inFlightCount, others,
                   callVars, fetchVars>>

\* a call for a key outside CacheKeys passes the limit check and starts its
\* fetch.  Without a client its continuation is a microtask that can be
\* queued ahead of those of the modelled calls; with a client it follows
\* its redis.get
OtherStart ==
    /\ token
    /\ ClientReady
    /\ HasClient => ~MicrotaskQueued
    /\ ~LimitReached(inFlightCount)
    /\ inFlightCount' = inFlightCount + 1
    /\ others' = others + 1
    /\ UNCHANGED <<confVars, utilVars, fetchedAt, redisPromise, now, cache, redis, callVars, fetchVars>>

\* the import of @upstash/redis ends: redisPromise is resolved with the
\* client, or, when the import or `new Redis` throws, with null (.catch);
\* the continuations of the calls waiting for it are queued
ImportResolves(ok) ==
    /\ redisPromise = "pending"
    /\ redisPromise' = IF ok THEN "resolved" ELSE "resolvedNull"
    /\ UNCHANGED <<confVars, utilVars, fetchedAt, now, cache, redis, inFlightCount, others,
                   callVars, fetchVars>>

\* a fetch for a key outside CacheKeys settles (finally: inFlightCount--)
OtherSettle ==
    /\ others > 0
    /\ ~MicrotaskQueued
    /\ inFlightCount' = inFlightCount - 1
    /\ others' = others - 1
    /\ UNCHANGED <<confVars, utilVars, fetchedAt, redisPromise, now, cache, redis, callVars, fetchVars>>

(* ---------- card.ts ---------- *)

\* an optional boolean; an absent one is Undefined
Bool(b) == [kind |-> "boolean", value |-> b]

\* `opts.compact ?? false` with the option ignored
OrFalseIgnored(v) == FALSE

\* opts.compact ?? false
OrFalse(v) == IF v = Undefined THEN FALSE ELSE v.value

\* `v ? ... : ...` of a string of characters or null: neither null nor ''
NonEmpty(v) == v # Undefined /\ v.value # <<>>

\* Layout constants
W == 500
H == 200
P == 22
barWidth == W - P * 2
labelY == H - 16

\* `${v}` of a string or undefined
TemplateOf(v) == IF v = Undefined THEN "undefined" ELSE v.value

\* langs.reduce((sum, l) => sum + l.size, 0)
RECURSIVE SumSizes(_)
SumSizes(langs) == IF langs = <<>> THEN 0 ELSE Head(langs).size + SumSizes(Tail(langs))

\* const totalSize = langs.reduce(...) || 1
totalSizeOf(langs) == IF SumSizes(langs) = 0 THEN 1 ELSE SumSizes(langs)

\* const w = (lang.size / totalSize) * barWidth
widthOf(lang, totalSize) == DoubleTimes(DoubleDiv(lang.size, totalSize), barWidth)

\* `offset` after the first i segments: let offset = 0, then offset += w
\* for each of them in turn
RECURSIVE offsetAfter(_, _)
offsetAfter(langs, i) ==
    IF i = 0 THEN DoubleZero
    ELSE DoublePlus(offsetAfter(langs, i - 1), widthOf(langs[i], totalSizeOf(langs)))

\* langRects without `offset += w`: every segment starts at the padding
langRectsStacked(langs) ==
    [i \in 1..Len(langs) |->
        [x     |-> NumberToString(DoublePlus(DoubleOf(BigOf(P), 0), DoubleZero)),
         width |-> NumberToString(widthOf(langs[i], totalSizeOf(langs))),
         fill  |-> langs[i].color]]

\* langRects: for each language in the given order x="${P + offset}" and
\* width="${w}", the Numbers as String prints them
langRectsOf(langs) ==
    [i \in 1..Len(langs) |->
        [x     |-> NumberToString(DoublePlus(DoubleOf(BigOf(P), 0),
                                             offsetAfter(langs, i - 1))),
         width |-> NumberToString(widthOf(langs[i], totalSizeOf(langs))),
         fill  |-> langs[i].color]]

\* ((lang.size / totalSize) * 100).toFixed(0)
PercentOf(size, totalSize) == ToFixed0(DoubleTimes(DoubleDiv(size, totalSize), 100))

\* Math.floor(barWidth / Math.max(langs.length, 1))
labelSpacingOf(langs) == barWidth \div (IF Len(langs) > 1 THEN Len(langs) ELSE 1)

\* langLabels when not compact
langLabelsOf(langs) ==
    [i \in 1..Len(langs) |->
        [cx   |-> P + (i - 1) * labelSpacingOf(langs) + 5,
         fill |-> langs[i].color,
         name |-> langs[i].name,
         pct  |-> PercentOf(langs[i].size, totalSizeOf(langs))]]

\* the parts of the SVG string renderCard returns.  bioRaw is '' in every
\* call that comes this far (see renderCard), so bioLines is [] and no bio
\* line is emitted.
CardOf(u, stats, langs, opts, compact) ==
    LET c        == resolveColors(opts)
        name     == escapeXml(IF NonEmpty(u.name) THEN u.name.value
                              ELSE u.login.value)
        uname    == escapeXml(u.login.value)
        bioLines == <<>>
        pronouns == IF ~compact /\ NonEmpty(u.pronouns)
                    THEN escapeXml(u.pronouns.value) ELSE <<>>
        avatarSource == IF NonEmpty(u.avatarDataUrl) THEN u.avatarDataUrl
                        ELSE u.avatarUrl
        avatar   == IF NonEmpty(avatarSource)
                    THEN Str(ReplaceAll(avatarSource.value, "&", AMP))
                    ELSE [kind |-> "placeholder"]
        twitter  == IF ~compact /\ NonEmpty(u.twitter)
                    THEN escapeXml(u.twitter.value) ELSE <<>>
    IN  [title    |-> name,
         uname    |-> uname,
         pronouns |-> pronouns,
         bio      |-> bioLines,
         twitter  |-> IF compact THEN <<>> ELSE twitter,
         avatar   |-> avatar,
         colors   |-> c,
         stroke   |-> IF OrFalse(opts.hide_border) THEN "none"
                      ELSE "#" \o TemplateOf(c.border),
         textCss  |-> ~compact,
         stats    |-> [stars   |-> kFormat(stats.stars),
                       commits |-> kFormat(stats.commits),
                       issues  |-> kFormat(stats.issues),
                       repos   |-> kFormat(stats.repos),
                       prs     |-> kFormat(stats.prs)],
         langRects  |-> langRectsOf(langs),
         langLabels |-> IF compact THEN <<>> ELSE langLabelsOf(langs)]

\* renderCard: what the call returns or throws.  card.ts:9 imports wrapText
\* from utils/index.ts, which exports none (utils/index.ts:10).  The build
\* the tests run leaves the name undefined, and the call wrapText(bioRaw,
\* 42, 2) of line 40, made when the card is not compact and the bio is not
\* empty, throws a TypeError; a loader that checks the names it imports
\* does not load card.ts, and renderCard is never called.
renderCard(u, stats, langs, opts) ==
    IF u = Undefined \/ ~NonEmpty(u.login)
    THEN ErrorOut("Invalid user data: missing login")
    ELSE IF stats = Undefined THEN ErrorOut("Invalid stats data")
    ELSE IF ~OrFalse(opts.compact) /\ NonEmpty(u.bio)
    THEN ErrorOut("TypeError: wrapText is not a function")
    ELSE ValueOut(CardOf(u, stats, langs, opts, OrFalse(opts.compact)))

\* the arguments renderCard is called with
Logins == {Undefined, Str(<<>>), Str(<<"m", "o", "n", "a">>)}
Names == {Undefined, Str(<<>>), Str(<<"M", "&", "M", " ", "<", "M", "o", "n", "a", ">">>)}
LongBio ==
    <<"W", "r", "i", "t", "e", "s", " ", "<", "T", "L", "A", "+", ">", " ",
      "s", "p", "e", "c", "s", " ", "&", " ", "m", "o", "d", "e", "l", " ",
      "c", "h", "e", "c", "k", "s", " ", "t", "h", "e", "m", " ", "a", "l",
      "l", " ", "d", "a", "y", ";", " ", "p", "r", "o", "v", "e", "s", " ",
      "n", "o", "t", "h", "i", "n", "g">>
\* a bio whose second word is a URL with a query string
UrlBio ==
    <<"C", "a", "r", "d", "s", ":", " ", "h", "t", "t", "p", "s", ":", "/",
      "/", "e", "x", "a", "m", "p", "l", "e", ".", "o", "r", "g", "/", "c",
      "a", "r", "d", "s", "?", "u", "s", "e", "r", "=", "o", "c", "t", "o",
      "c", "a", "t", "&", "t", "h", "e", "m", "e", "=", "d", "a", "r", "k">>
Bios ==
    {Undefined, Str(<<>>), Str(<<"I", " ", "<", "3", " ", "s", "p", "e", "c", "s">>),
     Str(LongBio), Str(UrlBio)}
Pronouns == {Undefined, Str(<<"s", "h", "e", "/", "h", "e", "r">>)}
Twitters == {Undefined, Str(<<"m", "o", "n", "a">>)}
AvatarUrl == Str(<<"h", "t", "t", "p", "s", ":", "/", "/", "a", "/", "u", "/", "1",
          "?", "s", "=", "7", "2", "&", "v", "=", "4">>)
AvatarDataUrl == Str(<<"d", "a", "t", "a", ":", "i", "m", "a", "g", "e", "/", "p", "n",
          "g", ";", "b", "a", "s", "e", "6", "4", ",", "A", "A", "=", "=">>)
Avatars ==
    {[avatarUrl |-> Undefined, avatarDataUrl |-> Undefined],
     [avatarUrl |-> AvatarUrl, avatarDataUrl |-> Undefined],
     [avatarUrl |-> AvatarUrl, avatarDataUrl |-> AvatarDataUrl]}

UserProfiles ==
    {Undefined} \cup
    {[login |-> l, name |-> n, bio |-> b, pronouns |-> pr, twitter |-> t,
      avatarUrl |-> a.avatarUrl, avatarDataUrl |-> a.avatarDataUrl] :
        l \in Logins, n \in Names, b \in Bios, pr \in Pronouns, t \in Twitters,
        a \in Avatars}

UserStats ==
    {Undefined,
     [stars |-> 1500, commits |-> 999, issues |-> 0, repos |-> 12, prs |-> 1000000]}

LangStat(name, size, color) == [name |-> name, size |-> size, color |-> color]

\* the language lists: none; sizes 7000 and 3000; five languages; sizes
\* that are all 0; one language; sizes 23 and 17, a share of 57.5 %; a
\* share below 10^-6; three equal sizes
LangLists ==
    {<<>>,
     <<LangStat("TypeScript", 7000, "#3178c6"), LangStat("Go", 3000, "#00ADD8")>>,
     <<LangStat("C", 50, "#555555"), LangStat("Rust", 30, "#dea584"),
       LangStat("Go", 11, "#00ADD8"), LangStat("Shell", 6, "#89e051"),
       LangStat("Ruby", 3, "#701516")>>,
     <<LangStat("C", 0, "#555555"), LangStat("Go", 0, "#00ADD8")>>,
     <<LangStat("Python", 1, "#3572A5")>>,
     <<LangStat("Java", 23, "#b07219"), LangStat("Kotlin", 17, "#A97BFF")>>,
     <<LangStat("Makefile", 1, "#427819"), LangStat("C", 999999999, "#555555")>>,
     <<LangStat("C", 1, "#555555"), LangStat("Go", 1, "#00ADD8"),
       LangStat("Ruby", 1, "#701516")>>}

CardOptions ==
    [theme : {Undefined, Str("dark")}, bg_color : {Undefined},
     title_color : {Undefined, Str("ff0000")}, text_color : {Undefined},
     icon_color : {Undefined}, border_color : {Undefined, Str("none")},
     hide_border : {Undefined, Bool(TRUE)},
     compact : {Undefined, Bool(FALSE), Bool(TRUE)}]

\* a profile with every field set and one with the login only
FullProfile ==
    [login |-> Str(<<"m", "o", "n", "a">>),
     name |-> Str(<<"M", "&", "M", " ", "<", "M", "o", "n", "a", ">">>),
     bio |-> Str(LongBio), pronouns |-> Str(<<"s", "h", "e", "/", "h", "e", "r">>),
     twitter |-> Str(<<"m", "o", "n", "a">>),
     avatarUrl |-> AvatarUrl, avatarDataUrl |-> AvatarDataUrl]

LoginOnly ==
    [login |-> Str(<<"m", "o", "n", "a">>), name |-> Undefined, bio |-> Undefined,
     pronouns |-> Undefined, twitter |-> Undefined,
     avatarUrl |-> Undefined, avatarDataUrl |-> Undefined]

\* the calls of renderCard: every profile with no languages, and the two
\* profiles above with every language list
CardCalls ==
    {[fn |-> "renderCard", user |-> u, stats |-> st, langs |-> <<>>, opts |-> o] :
        u \in UserProfiles, st \in UserStats, o \in CardOptions}
    \cup
    {[fn |-> "renderCard", user |-> u, stats |-> st, langs |-> ls, opts |-> o] :
        u \in {FullProfile, LoginOnly}, st \in UserStats \ {Undefined},
        ls \in LangLists, o \in CardOptions}

(* ---------- the rendering functions ---------- *)

\* the state of a process in which only a rendering function is called
InitRender ==
    /\ token = FALSE
    /\ redisOn = FALSE
    /\ InitService
    /\ utilOut = NoOut

\* kFormat(num) is called and returns
KFormatCall ==
    /\ utilArgs.fn = "kFormat"
    /\ utilOut = NoOut
    /\ utilOut' = ValueOut(kFormat(utilArgs.num))
    /\ UNCHANGED <<serviceVars, utilArgs>>

\* escapeXml(str) is called and returns
EscapeXmlCall ==
    /\ utilArgs.fn = "escapeXml"
    /\ utilOut = NoOut
    /\ utilOut' = ValueOut(escapeXml(utilArgs.str))
    /\ UNCHANGED <<serviceVars, utilArgs>>

\* resolveColors(opts) is called and returns
ResolveColorsCall ==
    /\ utilArgs.fn = "resolveColors"
    /\ utilOut = NoOut
    /\ utilOut' = ValueOut(resolveColors(utilArgs.opts))
    /\ UNCHANGED <<serviceVars, utilArgs>>

\* renderCard(user, stats, langs, opts) is called and returns or throws
RenderCardCall ==
    /\ utilArgs.fn = "renderCard"
    /\ utilOut = NoOut
    /\ utilOut' = renderCard(utilArgs.user, utilArgs.stats, utilArgs.langs,
                             utilArgs.opts)
    /\ UNCHANGED <<serviceVars, utilArgs>>

(* ---------- specifications ---------- *)

\* the responses of the specifications of overlapping calls: a failure and
\* the only page of an account
MainResponses ==
    {r \in PageResponses :
        \/ r.kind = "transport"
        \/ r.kind = "ok" /\ ~r.errors /\ r.user /\ r.nodes = 1 /\ ~r.hasNextPage}

\* an account with more pages than the loop ever requests
UnboundedPages == maxPages + 1

\* Spec: MaxCalls overlapping calls for one key, the shared store and its
\* other writers, every outcome of the avatar download, of the reading of
\* a body and of the reads and writes of the shared store
Next ==
    \/ \E c \in Calls, u \in Users : Call(c, u, TRUE)
    \/ \E c \in Calls : ResumeGetRedis(c)
    \/ \E c \in Calls : CallSettles(c)
    \/ \E ok \in BOOLEAN : ImportResolves(ok)
    \/ \E c \in Calls, failed \in BOOLEAN : RedisGetReturn(c, failed)
    \/ \E f \in Calls, resp \in MainResponses : PageAnswer(f, resp, UnboundedPages)
    \/ \E f \in Calls, failed \in BOOLEAN : PageBody(f, failed)
    \/ \E f \in Calls, ok \in BOOLEAN : AvatarAnswer(f, ok)
    \/ \E f \in Calls, failed \in BOOLEAN : AvatarBody(f, failed)
    \/ \E f \in Calls : AvatarResume(f)
    \/ \E f \in Calls, failed \in BOOLEAN : RedisSetReturn(f, failed)
    \/ \E u \in Users, embedded \in BOOLEAN, builtAt \in Times :
            RedisExternalSet(CacheKeyOf(u, TRUE), embedded, builtAt)

Spec == Init /\ [][Next]_vars

\* the pages of repositories the account holds in SpecFetch
MaxFetchPages == 3

\* SpecFetch: two calls for one key, every kind of page response on every
\* page of an account of MaxFetchPages pages (the loop up to its ceiling
\* is in SpecPages, calls on two keys are in SpecKeys and SpecCeiling)
NextFetch ==
    \/ \E c \in TwoCalls, u \in Users : Call(c, u, TRUE)
    \/ \E c \in TwoCalls : ResumeGetRedis(c)
    \/ \E c \in TwoCalls : CallSettles(c)
    \/ \E ok \in BOOLEAN : ImportResolves(ok)
    \/ \E c \in TwoCalls, failed \in BOOLEAN : RedisGetReturn(c, failed)
    \/ \E f \in TwoCalls, resp \in PageResponses : PageAnswer(f, resp, MaxFetchPages)
    \/ \E f \in TwoCalls, failed \in BOOLEAN : PageBody(f, failed)
    \/ \E f \in TwoCalls, ok \in BOOLEAN : AvatarAnswer(f, ok)
    \/ \E f \in TwoCalls, failed \in BOOLEAN : AvatarBody(f, failed)
    \/ \E f \in TwoCalls : AvatarResume(f)
    \/ \E f \in TwoCalls, failed \in BOOLEAN : RedisSetReturn(f, failed)

SpecFetch == Init /\ [][NextFetch]_vars

OneCall == {1}

\* SpecPages: one call, every kind of page response, an account with more
\* pages than the loop ever requests
NextPages ==
    \/ \E c \in OneCall, u \in Users : Call(c, u, TRUE)
    \/ \E c \in OneCall : ResumeGetRedis(c)
    \/ \E c \in OneCall : CallSettles(c)
    \/ \E ok \in BOOLEAN : ImportResolves(ok)
    \/ \E c \in OneCall, failed \in BOOLEAN : RedisGetReturn(c, failed)
    \/ \E f \in OneCall, resp \in PageResponses : PageAnswer(f, resp, UnboundedPages)
    \/ \E f \in OneCall, failed \in BOOLEAN : PageBody(f, failed)
    \/ \E f \in OneCall, ok \in BOOLEAN : AvatarAnswer(f, ok)
    \/ \E f \in OneCall, failed \in BOOLEAN : AvatarBody(f, failed)
    \/ \E f \in OneCall : AvatarResume(f)
    \/ \E f \in OneCall, failed \in BOOLEAN : RedisSetReturn(f, failed)

SpecPages == Init /\ [][NextPages]_vars

\* SpecTime: two calls for one key, the other writers of the shared store
\* and the clock
NextTime ==
    \/ \E c \in TwoCalls, u \in Users : Call(c, u, TRUE)
    \/ \E c \in TwoCalls : ResumeGetRedis(c)
    \/ \E c \in TwoCalls : CallSettles(c)
    \/ \E ok \in BOOLEAN : ImportResolves(ok)
    \/ \E c \in TwoCalls, failed \in BOOLEAN : RedisGetReturn(c, failed)
    \/ \E f \in TwoCalls, resp \in MainResponses : PageAnswer(f, resp, UnboundedPages)
    \/ \E f \in TwoCalls, failed \in BOOLEAN : PageBody(f, failed)
    \/ \E f \in TwoCalls, ok \in BOOLEAN : AvatarAnswer(f, ok)
    \/ \E f \in TwoCalls, failed \in BOOLEAN : AvatarBody(f, failed)
    \/ \E f \in TwoCalls : AvatarResume(f)
    \/ \E f \in TwoCalls, failed \in BOOLEAN : RedisSetReturn(f, failed)
    \/ \E u \in Users, embedded \in BOOLEAN, builtAt \in Times :
            RedisExternalSet(CacheKeyOf(u, TRUE), embedded, builtAt)
    \/ Tick

SpecTime == Init /\ [][NextTime]_vars

\* SpecKeys: two calls on two keys, with and without languages, and the
\* other writers of the shared store
NextKeys ==
    \/ \E c \in TwoCalls, u \in Users, l \in BOOLEAN : Call(c, u, l)
    \/ \E c \in TwoCalls : ResumeGetRedis(c)
    \/ \E c \in TwoCalls : CallSettles(c)
    \/ \E ok \in BOOLEAN : ImportResolves(ok)
    \/ \E c \in TwoCalls, failed \in BOOLEAN : RedisGetReturn(c, failed)
    \/ \E f \in TwoCalls, resp \in MainResponses : PageAnswer(f, resp, UnboundedPages)
    \/ \E f \in TwoCalls, failed \in BOOLEAN : PageBody(f, failed)
    \/ \E f \in TwoCalls, ok \in BOOLEAN : AvatarAnswer(f, ok)
    \/ \E f \in TwoCalls, failed \in BOOLEAN : AvatarBody(f, failed)
    \/ \E f \in TwoCalls : AvatarResume(f)
    \/ \E f \in TwoCalls, failed \in BOOLEAN : RedisSetReturn(f, failed)
    \/ \E k \in CacheKeys, embedded \in BOOLEAN, builtAt \in Times :
            RedisExternalSet(k, embedded, builtAt)

SpecKeys == Init /\ [][NextKeys]_vars

\* SpecCeiling: two calls on the modelled keys among the fetches of calls
\* for other keys, which share the in-flight counter
NextCeiling ==
    \/ \E c \in TwoCalls, u \in Users, l \in BOOLEAN : Call(c, u, l)
    \/ \E c \in TwoCalls : ResumeGetRedis(c)
    \/ \E c \in TwoCalls : CallSettles(c)
    \/ \E ok \in BOOLEAN : ImportResolves(ok)
    \/ \E c \in TwoCalls, failed \in BOOLEAN : RedisGetReturn(c, failed)
    \/ \E f \in TwoCalls, resp \in MainResponses : PageAnswer(f, resp, UnboundedPages)
    \/ \E f \in TwoCalls, failed \in BOOLEAN : PageBody(f, failed)
    \/ \E f \in TwoCalls, ok \in BOOLEAN : AvatarAnswer(f, ok)
    \/ \E f \in TwoCalls, failed \in BOOLEAN : AvatarBody(f, failed)
    \/ \E f \in TwoCalls : AvatarResume(f)
    \/ \E f \in TwoCalls, failed \in BOOLEAN : RedisSetReturn(f, failed)
    \/ OtherImports
    \/ OtherStart
    \/ OtherSettle

SpecCeiling == Init /\ [][NextCeiling]_vars

\* SpecAggregate: one call, an account of up to MaxDataPages pages with any
\* user data and repository nodes on each page
NextAggregate ==
    \/ \E c \in OneCall, u \in Users, l \in BOOLEAN : Call(c, u, l)
    \/ \E c \in OneCall : ResumeGetRedis(c)
    \/ \E c \in OneCall : CallSettles(c)
    \/ \E ok \in BOOLEAN : ImportResolves(ok)
    \/ \E c \in OneCall, failed \in BOOLEAN : RedisGetReturn(c, failed)
    \/ \E f \in OneCall, resp \in DataResponses : PageAnswer(f, resp, MaxDataPages)
    \/ \E f \in OneCall, failed \in BOOLEAN : PageBody(f, failed)
    \/ \E f \in OneCall, ok \in BOOLEAN : AvatarAnswer(f, ok)
    \/ \E f \in OneCall, failed \in BOOLEAN : AvatarBody(f, failed)
    \/ \E f \in OneCall : AvatarResume(f)
    \/ \E f \in OneCall, failed \in BOOLEAN : RedisSetReturn(f, failed)

SpecAggregate == Init /\ [][NextAggregate]_vars

\* SpecLive: two calls for one key against an upstream that answers, fails
\* or hangs, and an account of any number of pages

\* the answers of a page request: a transport failure (the request hung
\* until its timeout, or failed), the last page, a page with more to come
LiveResponses ==
    {r \in PageResponses :
        \/ r.kind = "transport"
        \/ r.kind = "ok" /\ ~r.errors /\ r.user /\ r.nodes = 1}

NextLive ==
    \/ \E c \in TwoCalls, u \in Users : Call(c, u, TRUE)
    \/ \E c \in TwoCalls : ResumeGetRedis(c)
    \/ \E c \in TwoCalls : CallSettles(c)
    \/ \E ok \in BOOLEAN : ImportResolves(ok)
    \/ \E c \in TwoCalls, failed \in BOOLEAN : RedisGetReturn(c, failed)
    \/ \E f \in TwoCalls, resp \in LiveResponses : PageAnswer(f, resp, UnboundedPages)
    \/ \E f \in TwoCalls, failed \in BOOLEAN : PageBody(f, failed)
    \/ \E f \in TwoCalls, ok \in BOOLEAN : AvatarAnswer(f, ok)
    \/ \E f \in TwoCalls, failed \in BOOLEAN : AvatarBody(f, failed)
    \/ \E f \in TwoCalls : AvatarResume(f)
    \/ \E f \in TwoCalls, failed \in BOOLEAN : RedisSetReturn(f, failed)

\* signal: AbortSignal.timeout(10_000): a page request ends, with an answer
\* or with the timeout error
PageDeadline(f) ==
    /\ WF_vars(\E resp \in LiveResponses : PageAnswer(f, resp, UnboundedPages))
    /\ WF_vars(\E failed \in BOOLEAN : PageBody(f, failed))

\* signal: AbortSignal.timeout(5_000): the avatar download ends, with the
\* image or with null
AvatarDeadline(f) ==
    /\ WF_vars(\E ok \in BOOLEAN : AvatarAnswer(f, ok))
    /\ WF_vars(\E failed \in BOOLEAN : AvatarBody(f, failed))

\* the import of @upstash/redis ends, and the continuation of
\* `await getRedis()` and the settlement of a call's promise are
\* microtasks: they run.  The awaits of redis.get and
\* redis.set have no timeout and get no fairness.
Fairness ==
    /\ WF_vars(\E ok \in BOOLEAN : ImportResolves(ok))
    /\ \A c \in TwoCalls :
        /\ WF_vars(ResumeGetRedis(c))
        /\ WF_vars(CallSettles(c))
        /\ WF_vars(AvatarResume(c))
        /\ PageDeadline(c)
        /\ AvatarDeadline(c)

SpecLive == Init /\ [][NextLive]_vars /\ Fairness

\* SpecFormat: kFormat applied to one number
InitFormat ==
    /\ InitRender
    /\ utilArgs \in {[fn |-> "kFormat", num |-> n] : n \in KFormatNums}

NextFormat == KFormatCall

SpecFormat == InitFormat /\ [][NextFormat]_vars

\* SpecEscape: escapeXml applied to one string
WrapTextCall ==
    /\ utilArgs.fn = "wrapText"
    /\ utilOut = NoOut
    /\ utilOut' = ValueOut(wrapText(utilArgs.input, utilArgs.maxLen, utilArgs.maxLines))
    /\ UNCHANGED <<serviceVars, utilArgs>>

InitWrap ==
    /\ InitRender
    /\ utilArgs \in {[fn |-> "wrapText", input |-> x, maxLen |-> w, maxLines |-> n] :
                        x \in WrapInputs, w \in 1..MaxWidth, n \in 1..MaxLines}

NextWrap == WrapTextCall

SpecWrap == InitWrap /\ [][NextWrap]_vars

InitEscape ==
    /\ InitRender
    /\ utilArgs \in {[fn |-> "escapeXml", str |-> x] : x \in EscapeStrings}

NextEscape == EscapeXmlCall

SpecEscape == InitEscape /\ [][NextEscape]_vars

\* SpecColors: resolveColors applied to one set of options
InitColors ==
    /\ InitRender
    /\ utilArgs \in {[fn |-> "resolveColors", opts |-> o] : o \in ColorOptions}

NextColors == ResolveColorsCall

SpecColors == InitColors /\ [][NextColors]_vars

\* SpecCard: renderCard applied to one profile
InitCard ==
    /\ InitRender
    /\ utilArgs \in CardCalls

NextCard == RenderCardCall

SpecCard == InitCard /\ [][NextCard]_vars

(* ---------- properties ---------- *)

\* the call went past both cache layers to the de-duplication step
ReachedDedupe(c) == \E i \in 1..Len(callLog[c]) : callLog[c][i] = "inflight"

\* the call launched an upstream fetch of its own
StartedFetch(c) == \E i \in 1..Len(callLog[c]) : callLog[c][i] = "upstream"

\* a completed snapshot held by the local cache for key k
HoldsSnapshot(m, k) == m[k] # Absent /\ m[k].value # Undefined

\* the call returned the promise of a fetch another call launched
Joined(c) == callOut[c].kind = "promise" /\ callOut[c].fetch # c

\* the call returned the promise of a fetch that settled with `out`: the
\* promise of the call has taken that result, or takes it in the microtask
\* that is queued
Receives(c, out) ==
    /\ callOut[c].kind = "promise"
    /\ FetchResult(callOut[c].fetch) = out
    /\ callSettled[c] \/ SettleQueued(c)
    /\ callSettled[c] => Outcome(c) = out

\* C1: when getProfileData calls for the same key overlap and neither cache
\* holds a snapshot for it, a single upstream fetch is started and every
\* one of the callers receives the same outcome.
C1_OneFetchSameOutcome ==
    \A c, d \in Calls :
        (/\ c \in callOverlap[d]
         /\ callKey[c] = callKey[d]
         /\ ReachedDedupe(c) /\ ReachedDedupe(d))
        => /\ ~(StartedFetch(c) /\ StartedFetch(d))
           /\ (Settled(c) /\ Settled(d)) => Outcome(c) = Outcome(d)

\* C2: in every reachable state at most one upstream fetch is running for
\* any one cache key.
C2_OneFetchPerKey ==
    \A f, g \in Calls :
        (f # g /\ WaitsForUpstream(f) /\ WaitsForUpstream(g)) => callKey[f] # callKey[g]

\* C3: after a fetch has failed, the local cache holds no in-flight
\* placeholder of that fetch, whatever made it fail.
C3_NoPlaceholderAfterFailure ==
    \A f \in Calls :
        fetchPc[f] = "rejected"
        => ~(HasInFlight(cache[callKey[f]]) /\ cache[callKey[f]].inFlight = PromiseOf(f))

\* fetches that have started and not settled, on all keys
RunningFetches == others + Cardinality({f \in Calls : IsPending(f)})

\* a call reaches the limit check (no in-flight fetch to join) while the
\* ceiling is reached: it throws at once and starts nothing
CeilingStep ==
    \A c \in Calls :
        (/\ callPc[c] \in {"awaitGetRedis", "awaitRedisGet"}
         /\ callPc'[c] = "done"
         /\ callOut'[c].kind # "value"
         /\ ~HasInFlight(cache[callKey[c]])
         /\ RunningFetches >= 100)
        => /\ callOut'[c] = ErrorOut("TooMany")
           /\ fetchPc'[c] = "none"
           /\ pageReqs' = pageReqs
           /\ cache' = cache
           /\ RunningFetches' = RunningFetches

\* C4: never more than 100 upstream fetches run at the same time; a call
\* that would have to start one while 100 are running fails at once with
\* the too-many-concurrent-requests error and starts no fetch.
C4_Ceiling == [](RunningFetches <= 100) /\ [][CeilingStep]_vars

C4_Witness ==
    /\ RunningFetches = 100
    /\ \E c \in Calls : callOut[c] = ErrorOut("TooMany") /\ fetchPc[c] = "none"

\* C5: one fetch never issues more than 10 page requests, even when every
\* page reports a next page and returns repositories.
C5_AtMostTenPages == \A f \in Calls : pageReqs[f] <= 10

\* the tenth page still reported a next page and the loop stopped
C5_Witness ==
    \E f \in Calls : fetchPc[f] = "avatar" /\ pageReqs[f] = 10 /\ hasNextPage[f]

Consulted(c, layer) == \E i \in 1..Len(callLog[c]) : callLog[c][i] = layer

\* C6 as stated: without a token the call fails with the missing-token
\* error before any network call: no shared-cache request, no upstream
\* request and no avatar request precedes the failure.
C6_NoNetworkBeforeFailure ==
    ~token =>
        \A c \in Calls :
            Outcome(c) = ErrorOut("MissingToken")
            => /\ ~Consulted(c, "shared")
               /\ \A f \in Calls : pageReqs[f] = 0 /\ avatarReqs[f] = 0

\* C6 as amended: without a token a call that fails with the missing-token
\* error, by starting a fetch or by joining the rejected fetch of an
\* earlier call, does so before any upstream request or avatar request;
\* only its read of the shared cache, made exactly when the process has a
\* shared-cache client, precedes the failure.  A fetch started without a
\* token is rejected in the step that starts it.
C6_NoUpstreamBeforeFailure ==
    ~token =>
        \A c \in Calls :
            /\ Outcome(c) = ErrorOut("MissingToken")
               => /\ \A f \in Calls : pageReqs[f] = 0 /\ avatarReqs[f] = 0
                  /\ Consulted(c, "shared") = HasClient
            /\ StartedFetch(c)
               => /\ fetchPc[c] = "rejected" /\ fetchErr[c] = "MissingToken"
                  /\ pageReqs[c] = 0 /\ avatarReqs[c] = 0

\* a call that read the shared cache and started a fetch, and a call that
\* read it and joined the rejected fetch, both failed for the missing token
C6_Witness ==
    /\ ~token
    /\ \E c, d \in Calls :
        /\ StartedFetch(c) /\ Joined(d)
        /\ Outcome(c) = ErrorOut("MissingToken")
        /\ Outcome(d) = ErrorOut("MissingToken")
        /\ Consulted(c, "shared") /\ Consulted(d, "shared")
        /\ pageReqs[c] = 0

\* C7 as stated: without a token every call fails with the missing-token
\* error, whatever the caches hold.
C7_AlwaysMissingToken ==
    ~token => \A c \in Calls : Settled(c) => Outcome(c) = ErrorOut("MissingToken")

\* C7 as amended: without a token every call that neither cache answers
\* fails with the missing-token error, whether it starts a fetch or joins
\* the rejected fetch an earlier call left in the local cache, and a call
\* returns a snapshot only from the local or the shared cache.
C7_FetchNeedsToken ==
    ~token =>
        \A c \in Calls :
            /\ (callPc[c] = "done" /\ ReachedDedupe(c)) => Receives(c, ErrorOut("MissingToken"))
            /\ Settled(c)
               => \/ Outcome(c) = ErrorOut("MissingToken")
                  \/ Outcome(c).kind = "value" /\ ~ReachedDedupe(c)

\* a starter and a joiner failed for the missing token, a third call was
\* answered by a cache
C7_Witness ==
    /\ ~token
    /\ \E c, d, e \in Calls :
        /\ StartedFetch(c) /\ Outcome(c) = ErrorOut("MissingToken")
        /\ Joined(d) /\ Outcome(d) = ErrorOut("MissingToken")
        /\ Outcome(e).kind = "value"

\* C8: a non-OK page response fails the call with the error its status
\* selects: 401 authentication failed, 403 rate limited or forbidden, any
\* other status the generic upstream error, on whichever page it arrives.
C8_StatusSelectsError ==
    \A f \in Calls :
        (res[f].kind = "http" /\ fetchPc[f] # "text")
        => LET e == CASE res[f].status = 401 -> "Auth401"
                      [] res[f].status = 403 -> "Forbidden403"
                      [] OTHER -> "HttpError"
           IN  /\ fetchPc[f] = "rejected"
               /\ fetchErr[f] = e
               /\ \A c \in Calls : callOut[c] = PromiseOut(f) => Receives(c, ErrorOut(e))

\* what holds instead: a non-OK response whose text has been read fails
\* the call with the error its status selects
StatusSelectsErrorOnceRead ==
    \A f \in Calls :
        (res[f].kind = "http" /\ res[f].read = "yes")
        => /\ fetchPc[f] = "rejected"
           /\ fetchErr[f] = HttpError(res[f].status)
           /\ \A c \in Calls :
                callOut[c] = PromiseOut(f) => Receives(c, ErrorOut(fetchErr[f]))

\* a 401 whose text could not be read: the call failed with the error of
\* the read
UnreadStatus ==
    \E f \in Calls :
        /\ res[f].kind = "http" /\ res[f].status = 401 /\ res[f].read = "failed"
        /\ Outcome(f) = ErrorOut("BodyRead")

\* C9: whenever an OK page response carries no user, the call fails with
\* the 'User not found' error.
C9_NoUserMeansNotFound ==
    \A f \in Calls :
        (res[f].kind = "ok" /\ res[f].read = "yes" /\ ~res[f].user)
        => fetchPc[f] = "rejected" /\ fetchErr[f] = "UserNotFound"

\* the sequences of layers a call can have consulted
LayerOrders ==
    {<<>>, <<"local">>, <<"local", "shared">>, <<"local", "inflight">>,
     <<"local", "shared", "inflight">>, <<"local", "inflight", "upstream">>,
     <<"local", "shared", "inflight", "upstream">>}

\* the layers are consulted in order, and a hit ends the lookup
LayerOrder ==
    \A c \in Calls :
        /\ callLog[c] \in LayerOrders
        /\ callOut[c].kind = "value" => ~ReachedDedupe(c)
        /\ (fetchPc[c] # "none") = StartedFetch(c)

\* a call that finds a snapshot in the local cache before its expiry
\* returns it and touches neither the shared cache nor upstream
LocalHitStep ==
    \A c \in Calls :
        (callPc[c] = "idle" /\ callPc'[c] # "idle")
        => LET e == cache[callKey'[c]]
           IN  (e # Absent /\ e.value # Undefined /\ now < e.expiresAt)
               => /\ callPc'[c] = "done"
                  /\ callOut'[c] = ValueOut(e.value)
                  /\ callLog'[c] = <<"local">>
                  /\ UNCHANGED <<redis, inFlightCount, fetchPc, pageReqs, avatarReqs>>

\* a shared-cache hit ends the lookup before de-duplication
SharedHitStep ==
    \A c \in Calls :
        (callPc[c] = "awaitRedisGet" /\ callPc'[c] = "done" /\ callOut'[c].kind = "value")
        => /\ callLog'[c] = <<"local", "shared">>
           /\ UNCHANGED <<inFlightCount, fetchPc, pageReqs, avatarReqs>>

\* C10: the layers are consulted in the order local cache, shared cache,
\* in-flight fetch, new upstream fetch, each only after a miss in the one
\* before; a local hit on a non-expired snapshot returns it without a
\* shared-cache read and without an upstream request.
C10_LookupOrder == []LayerOrder /\ [][LocalHitStep /\ SharedHitStep]_vars

\* a local hit after the clock has advanced, short of the expiry
C10_Witness ==
    \E c \in Calls :
        /\ callPc[c] = "done" /\ callLog[c] = <<"local">>
        /\ callOut[c].kind = "value"
        /\ now > 0

\* C11: a call that misses the local cache and is answered by the shared
\* cache returns the shared snapshot, stores it in the local cache with an
\* expiry 30 minutes ahead, starts no upstream fetch and leaves the in-flight
\* counter as it was.
C11_HitState ==
    \A c \in Calls :
        redisReply[c] = "hit"
        => /\ callLog[c] = <<"local", "shared">>
           /\ callOut[c].kind = "value"
           /\ ~StartedFetch(c)

C11_HitStep ==
    \A c \in Calls :
        (callPc[c] = "awaitRedisGet" /\ redisReply'[c] = "hit")
        => LET k == callKey[c]
               v == redisGet(redis, k, now)
           IN  /\ v # Undefined
               /\ callPc'[c] = "done"
               /\ callOut'[c] = ValueOut(v)
               /\ cache'[k] = [kind |-> "entry", expiresAt |-> now + 30 * 60 * 1000,
                               value |-> v, inFlight |-> Undefined]
               /\ \A j \in CacheKeys \ {k} : cache'[j] = cache[j]
               /\ fetchPc' = fetchPc
               /\ pageReqs' = pageReqs
               /\ inFlightCount' = inFlightCount

C11_SharedHit == []C11_HitState /\ [][C11_HitStep]_vars

C11_Witness ==
    \E c, d \in Calls :
        /\ redisReply[c] = "hit"
        /\ callOut[c].kind = "value"
        /\ cache[callKey[c]] # Absent
        /\ cache[callKey[c]].value = callOut[c].value
        /\ now > 0
        /\ IsPending(d)
        /\ inFlightCount = 1

\* C12: a failure of the shared cache is never the outcome of a call: a call
\* whose shared-cache read failed goes on to de-duplication and the upstream
\* fetch as after a miss, and a fetch whose shared-cache write failed is
\* fulfilled with its snapshot for every caller holding its promise and
\* leaves that snapshot in the local cache.
C12_FailureState ==
    /\ \A c \in Calls :
        /\ redisReply[c] = "error"
           => /\ callLog[c] = <<"local", "shared", "inflight">>
                 \/ callLog[c] = <<"local", "shared", "inflight", "upstream">>
              /\ callOut[c].kind = "promise" \/ callOut[c] = ErrorOut("TooMany")
        /\ Outcome(c).kind = "error" => Outcome(c).error \in Errors
    /\ \A f \in Calls :
        redisWrite[f] = "error"
        => /\ fetchPc[f] = "fulfilled"
           /\ \A c \in Calls :
                callOut[c] = PromiseOut(f) => Receives(c, ValueOut(ProfileOf(f)))

C12_FailedWriteStep ==
    \A f \in Calls :
        (redisWrite[f] = "none" /\ redisWrite'[f] = "error")
        => /\ cache' = cache
           /\ redis' = redis
           /\ HoldsSnapshot(cache', callKey[f])
           /\ cache'[callKey[f]].value = ProfileOf(f)

C12_NoSharedCacheFailure == []C12_FailureState /\ [][C12_FailedWriteStep]_vars

\* what holds instead: the failure is swallowed and the failing write
\* changes neither cache
FailedWriteChangesNothing ==
    /\ []C12_FailureState
    /\ [][\A f \in Calls :
            (redisWrite[f] = "none" /\ redisWrite'[f] = "error")
            => cache' = cache /\ redis' = redis]_vars

\* the write of a fetch failed after the fetch of an overlapping call had
\* put its placeholder over the snapshot
FailedWriteWithoutSnapshot ==
    \E f, g \in Calls :
        /\ f # g
        /\ redisWrite[f] = "error"
        /\ callKey[f] = callKey[g]
        /\ IsPending(g)
        /\ HasInFlight(cache[callKey[f]])

\* the fetch has not yet built its snapshot
BeforeSnapshot(f) ==
    fetchPc[f] \in {"page", "text", "json", "avatar", "arrayBuffer", "avatarReturned"}

\* the local write: the continuation of the avatar download stores the
\* snapshot under the key of the fetch, replacing whatever entry the key
\* had, with an expiry 30 minutes ahead
C13_LocalWriteStep ==
    \A f \in Calls :
        (fetchPc[f] = "avatarReturned" /\ fetchPc'[f] # "avatarReturned")
        => /\ fetchPc'[f] = IF HasClient THEN "redisSet" ELSE "fulfilled"
           /\ cache'[callKey[f]] =
                [kind |-> "entry", expiresAt |-> now + 30 * 60 * 1000,
                 value |-> ProfileDataOf(callKey[f], f, fetchAvatar[f]),
                 inFlight |-> Undefined]

\* the fetch is fulfilled only after the local write and, with a
\* shared-cache client, after the answer to the shared write
C13_WrittenBeforeDelivery ==
    \A f \in Calls :
        /\ fetchPc[f] = "fulfilled" => (HasClient <=> redisWrite[f] # "none")
        /\ BeforeSnapshot(f) => redisWrite[f] = "none"
        /\ \A c \in Calls :
            (callOut[c] = PromiseOut(f) /\ Outcome(c).kind = "value")
            => fetchPc[f] = "fulfilled"

\* C13 as stated: a fetch that succeeds has written its snapshot to the
\* local cache and, when a shared cache is configured, to the shared
\* cache, both with a 30-minute TTL, before its result is delivered.
C13_SharedWriteAlways ==
    \A f \in Calls :
        (fetchPc[f] # "fulfilled" /\ fetchPc'[f] = "fulfilled" /\ redisOn)
        => redis'[callKey[f]] =
                [kind |-> "entry", value |-> ProfileOf(f),
                 expiresAt |-> now + 30 * 60 * 1000]

C13_BothWrittenBeforeDelivery ==
    /\ []C13_WrittenBeforeDelivery
    /\ [][C13_LocalWriteStep /\ C13_SharedWriteAlways]_vars

\* the shared write: with a shared-cache client the fetch is fulfilled by
\* the answer to its redis.set, which has stored the snapshot for 30
\* minutes unless the write failed; without a client it is fulfilled by
\* the step of the local write and the shared cache is left as it was
C13_SharedWriteStep ==
    \A f \in Calls :
        /\ (fetchPc[f] = "redisSet" /\ fetchPc'[f] # "redisSet")
           => /\ HasClient
              /\ fetchPc'[f] = "fulfilled"
              /\ redisWrite'[f] \in {"ok", "error"}
              /\ redisWrite'[f] = "ok"
                 => redis'[callKey[f]] =
                       [kind |-> "entry", value |-> ProfileOf(f),
                        expiresAt |-> now + 30 * 60 * 1000]
              /\ redisWrite'[f] = "error" => redis' = redis
        /\ (fetchPc[f] = "avatarReturned" /\ fetchPc'[f] = "fulfilled")
           => ~HasClient /\ redis' = redis

\* C13 as amended: a fetch that succeeds writes its snapshot under its key
\* to the local cache, replacing whatever entry the key had, and, when the
\* process has a shared-cache client, sends the write of the same snapshot
\* to the shared cache and awaits its answer; the write stores the
\* snapshot unless it fails, and a failure is swallowed.  Both entries
\* expire 30 minutes after they are written, and the fetch is fulfilled
\* only after both.
C13_StoreThenDeliver ==
    /\ []C13_WrittenBeforeDelivery
    /\ [][C13_LocalWriteStep /\ C13_SharedWriteStep]_vars

C13_Witness ==
    \E c, d \in Calls :
        /\ fetchPc[c] = "fulfilled"
        /\ redisWrite[c] = "ok"
        /\ Joined(d) /\ callOut[d].fetch = c
        /\ cache[callKey[c]] # Absent
        /\ cache[callKey[c]].value = ProfileOf(c)
        /\ cache[callKey[c]].expiresAt > 30 * 60 * 1000
        /\ redis[callKey[c]] # Absent
        /\ redis[callKey[c]].value = ProfileOf(c)
        /\ redis[callKey[c]].expiresAt > cache[callKey[c]].expiresAt

\* C14: when a page request of a fetch fails (no response, a body that
\* cannot be read, a non-OK status, GraphQL errors or a missing user), on
\* the first page or a later one, the fetch is rejected: the caller that
\* started it and every caller that joined it receive the error, and no
\* snapshot built by that fetch is in the local cache or the shared cache.
FailedPage(f) ==
    \/ res[f].kind = "transport"
    \/ res[f].kind \in {"http", "ok"} /\ res[f].read = "failed"
    \/ res[f].kind = "http" /\ res[f].read = "yes"
    \/ res[f].kind = "ok" /\ res[f].read = "yes" /\ (res[f].errors \/ ~res[f].user)

C14_NoPartialSnapshot ==
    \A f \in Calls :
        FailedPage(f)
        => /\ fetchPc[f] = "rejected"
           /\ fetchErr[f] \in Errors
           /\ \A c \in Calls :
                callOut[c] = PromiseOut(f) => Receives(c, ErrorOut(fetchErr[f]))
           /\ \A k \in CacheKeys :
                /\ (cache[k] # Absent /\ cache[k].value # Undefined) => cache[k].value.by # f
                /\ redis[k] # Absent => redis[k].value.by # f

C14_Witness ==
    \E f, c \in Calls :
        /\ FailedPage(f)
        /\ res[f].kind = "ok"
        /\ pageCount[f] > 1
        /\ Joined(c) /\ callOut[c].fetch = f
        /\ Outcome(c) = ErrorOut("GraphQL")
        /\ Outcome(f) = ErrorOut("GraphQL")

\* C15: includeLanguages is part of the key of the local cache, of the
\* shared cache and of de-duplication: the snapshot a call returns and the
\* fetch a call joins were created for the call's own username and
\* includeLanguages, never for the other value of the flag.
CreatedFor(v, args) ==
    IF v.by \in Calls
    THEN callArgs[v.by] = args
    ELSE v.key = <<args.username, IF args.includeLanguages THEN "langs" ELSE "nolangs">>

ArgsOfKey(k) == [username |-> k[1], includeLanguages |-> (k[2] = "langs")]

C15_FlagInKey ==
    /\ \A c \in Calls :
        callPc[c] # "idle"
        => /\ ArgsOfKey(callKey[c]) = callArgs[c]
           /\ callOut[c].kind = "promise" => callArgs[callOut[c].fetch] = callArgs[c]
           /\ Outcome(c).kind = "value" => CreatedFor(Outcome(c).value, callArgs[c])
    /\ \A k \in CacheKeys :
        /\ (cache[k] # Absent /\ cache[k].value # Undefined)
           => CreatedFor(cache[k].value, ArgsOfKey(k))
        /\ (cache[k] # Absent /\ cache[k].inFlight # Undefined)
           => callArgs[cache[k].inFlight.promise] = ArgsOfKey(k)
        /\ redis[k] # Absent => CreatedFor(redis[k].value, ArgsOfKey(k))

C15_Witness ==
    \E c, d \in Calls :
        /\ callArgs[c].username = callArgs[d].username
        /\ callArgs[c].includeLanguages /\ ~callArgs[d].includeLanguages
        /\ c \in callOverlap[d]
        /\ StartedFetch(c) /\ StartedFetch(d)
        /\ Outcome(c).kind = "value" /\ Outcome(d).kind = "value"
        /\ Outcome(c) # Outcome(d)
        /\ \A k \in CacheKeys : cache[k] # Absent /\ redis[k] # Absent

\* a call that returns the promise of the placeholder it finds in the map
\* (`existing.inFlight`) does so before the expiry of that entry
C16_JoinStep ==
    \A c \in Calls :
        (callPc[c] # "done" /\ callPc'[c] = "done" /\ Joined(c)')
        => now < cache[callKey[c]].expiresAt

\* C16: the local cache never returns an entry at or after the entry's
\* expiry time, which is the time of its write plus 30 minutes: a read at
\* or after expiry deletes the entry and the call goes on as after a miss;
\* a read before expiry leaves the map, expiry included, as it was.
C16_ReadStep ==
    \A c \in Calls :
        (callPc[c] = "idle" /\ callPc'[c] # "idle")
        => LET e == cache[callKey'[c]]
           IN  /\ (e # Absent /\ now >= e.expiresAt)
                  => /\ cache'[callKey'[c]] = Absent
                     /\ callPc'[c] = "awaitGetRedis"
                     /\ callOut'[c] = NoOut
               /\ callOut'[c].kind = "value"
                  => /\ e # Absent
                     /\ now < e.expiresAt
                     /\ callOut'[c].value = e.value
               /\ (e = Absent \/ now < e.expiresAt) => cache' = cache

C16_WriteStep ==
    \A k \in CacheKeys :
        (cache'[k] # cache[k] /\ cache'[k] # Absent)
        => cache'[k].expiresAt = now + 30 * 60 * 1000

C16_ExpiryByClock == [][C16_ReadStep /\ C16_WriteStep /\ C16_JoinStep]_vars

\* what holds instead: the getCache read of a call honours the expiry
ReadExpiryByClock == [][C16_ReadStep /\ C16_WriteStep]_vars

\* a read at the expiry time found the entry of a fulfilled fetch and
\* deleted it
ExpiredEntryEvicted ==
    \E c, f \in Calls :
        /\ c # f
        /\ callKey[c] = callKey[f]
        /\ fetchPc[f] = "fulfilled"
        /\ callPc[c] = "awaitGetRedis"
        /\ cache[callKey[c]] = Absent
        /\ now = 30 * 60 * 1000

\* a call joined the placeholder of a rejected fetch at the expiry time of
\* the entry
JoinedExpiredPlaceholder ==
    \E c \in Calls :
        /\ Joined(c)
        /\ HasInFlight(cache[callKey[c]])
        /\ cache[callKey[c]].inFlight = PromiseOf(callOut[c].fetch)
        /\ cache[callKey[c]].expiresAt <= now

\* C17: every entry of the local cache map holds a completed snapshot or the
\* handle of an in-flight fetch, never both and never neither.
C17_ValueXorInFlight ==
    \A k \in CacheKeys :
        cache[k] # Absent
        => (cache[k].value # Undefined) # (cache[k].inFlight # Undefined)

C17_Witness ==
    \E f, g \in Calls :
        /\ f # g
        /\ callKey[f] = callKey[g]
        /\ fetchPc[g] = "fulfilled"
        /\ IsPending(f)
        /\ cache[callKey[f]] # Absent
        /\ cache[callKey[f]].inFlight = PromiseOf(f)
        /\ cache[callKey[f]].value = Undefined

(* ---------- the aggregated snapshot ---------- *)

\* the repository nodes of all the pages a fetch processed, in order
RECURSIVE NodesOf(_)
NodesOf(pages) ==
    IF pages = <<>> THEN <<>> ELSE Head(pages).nodes \o NodesOf(Tail(pages))

\* the sum of the stargazer counts of a list of nodes
RECURSIVE StarSum(_)
StarSum(nodes) ==
    IF nodes = <<>> THEN 0 ELSE Head(nodes).stargazers.totalCount + StarSum(Tail(nodes))

\* every page request of the fetch was answered and processed
AllPagesProcessed(f) == Len(body[f]) = pageReqs[f]

\* C18: the stars counter of a snapshot is the sum of the stargazer counts
\* of all repository nodes on all pages the fetch requested; the running
\* total starts at 0, never decreases during the fetch and is never negative.
C18_StarsState ==
    \A f \in Calls :
        /\ fetchPc[f] = "none" => totalStars[f] = 0
        /\ totalStars[f] = StarSum(NodesOf(body[f]))
        /\ totalStars[f] >= 0
        /\ profile[f] # Undefined
           => /\ AllPagesProcessed(f)
              /\ profile[f].stats.stars = StarSum(NodesOf(body[f]))

C18_StarsStep == \A f \in Calls : totalStars'[f] >= totalStars[f]

C18_StarsAreSum == []C18_StarsState /\ [][C18_StarsStep]_vars

C18_Witness ==
    \E f \in Calls :
        /\ profile[f] # Undefined
        /\ Len(body[f]) = 2
        /\ Len(body[f][1].nodes) = 2
        /\ StarSum(body[f][1].nodes) > 0
        /\ StarSum(body[f][2].nodes) > 0
        /\ profile[f].stats.stars = StarSum(body[f][1].nodes) + StarSum(body[f][2].nodes)

\* C19: the identity fields of a snapshot and its repo, PR, issue and commit
\* counters are those of the response to the first page request; the user
\* data the fetch keeps is never replaced by that of a later page.
C19_FirstPageState ==
    \A f \in Calls :
        /\ body[f] # <<>> => user[f] = body[f][1].user
        /\ profile[f] # Undefined
           => LET u == body[f][1].user
                  p == profile[f]
              IN  /\ p.user.login = u.login
                  /\ p.user.name = u.name
                  /\ p.user.avatarUrl = u.avatarUrl
                  /\ p.user.bio = u.bio
                  /\ p.user.pronouns = u.pronouns
                  /\ p.user.twitter = u.twitterUsername
                  /\ p.stats.repos = u.repositories.totalCount
                  /\ p.stats.prs = CountOrZero(u.openPRs) + CountOrZero(u.closedPRs)
                                   + CountOrZero(u.mergedPRs)
                  /\ p.stats.issues = CountOrZero(u.openIssues) + CountOrZero(u.closedIssues)
                  /\ p.stats.commits =
                        IF u.contributionsCollection = Undefined THEN 0
                        ELSE u.contributionsCollection.totalCommitContributions

C19_FirstPageStep ==
    \A f \in Calls : user[f] # Undefined => user'[f] = user[f]

C19_FirstPageIdentity == []C19_FirstPageState /\ [][C19_FirstPageStep]_vars

C19_Witness ==
    \E f \in Calls :
        /\ profile[f] # Undefined
        /\ Len(body[f]) = 2
        /\ body[f][1].user = UserTwo
        /\ body[f][2].user = UserOne
        /\ profile[f].user.name = "Mona"
        /\ profile[f].stats.repos = 9

\* the language edges of a list of nodes, in order
RECURSIVE EdgesOf(_)
EdgesOf(nodes) ==
    IF nodes = <<>> THEN <<>> ELSE Head(nodes).languages \o EdgesOf(Tail(nodes))

\* the language names of a list of edges
NamesOf(edges) ==
    {edges[i].node.name : i \in {j \in 1..Len(edges) : edges[j].node # Undefined}}

\* the sum of the sizes of the edges of one language name
RECURSIVE SizeSum(_, _)
SizeSum(edges, name) ==
    IF edges = <<>> THEN 0
    ELSE (IF Head(edges).node # Undefined /\ Head(edges).node.name = name
          THEN Head(edges).size ELSE 0)
         + SizeSum(Tail(edges), name)

\* C20: with includeLanguages the language list of a snapshot has one entry
\* per language name, its size the sum of that name's sizes over all
\* repositories on all fetched pages; it is ordered by size descending and
\* holds at most 5 entries, the 5 largest when more names have a size: every
\* language left out is no larger than every one kept. Without
\* includeLanguages the list is empty.
C20_Languages ==
    \A f \in Calls :
        profile[f] # Undefined
        => LET L == profile[f].languages
               edges == EdgesOf(NodesOf(body[f]))
               sized == {n \in NamesOf(edges) : SizeSum(edges, n) > 0}
               kept == {L[i].name : i \in 1..Len(L)}
           IN  IF ~callArgs[f].includeLanguages THEN L = <<>>
               ELSE /\ \A i \in 1..Len(L) : L[i].size = SizeSum(edges, L[i].name)
                    /\ \A i, j \in 1..Len(L) : i # j => L[i].name # L[j].name
                    /\ \A i, j \in 1..Len(L) : i < j => L[i].size >= L[j].size
                    /\ Len(L) <= 5
                    /\ kept \subseteq sized
                    /\ Len(L) = IF Cardinality(sized) < 5 THEN Cardinality(sized) ELSE 5
                    /\ \A n \in NamesOf(edges) \ kept :
                        \A i \in 1..Len(L) : SizeSum(edges, n) <= L[i].size

C20_Witness ==
    \E f \in Calls :
        /\ profile[f] # Undefined
        /\ callArgs[f].includeLanguages
        /\ Len(body[f]) = 2
        /\ Len(profile[f].languages) = 5
        /\ Cardinality(NamesOf(EdgesOf(NodesOf(body[f])))) > 6
        /\ profile[f].languages[1].name = "TypeScript"
        /\ profile[f].languages[1].size
            > SizeSum(EdgesOf(body[f][1].nodes), "TypeScript")
        /\ SizeSum(EdgesOf(body[f][1].nodes), "TypeScript") > 0
        /\ langMap[f][1].name # "TypeScript"

\* the count of a connection of the response, 0 for a connection that is absent
Reported(u, field) == IF u[field] = Undefined THEN 0 ELSE u[field].totalCount

\* C21: in a snapshot prs is the sum of the open, closed and merged
\* pull-request counts, issues the sum of the open and closed issue counts
\* and commits the commit-contribution total of the year, an absent count
\* counting as 0; a response with absent counts does not fail the fetch.
C21_CountersWithFallback ==
    \A f \in Calls :
        /\ profile[f] # Undefined
           => LET u == user[f]
              IN  /\ profile[f].stats.prs =
                        Reported(u, "openPRs") + Reported(u, "closedPRs")
                        + Reported(u, "mergedPRs")
                  /\ profile[f].stats.issues =
                        Reported(u, "openIssues") + Reported(u, "closedIssues")
                  /\ profile[f].stats.commits =
                        IF u.contributionsCollection = Undefined THEN 0
                        ELSE u.contributionsCollection.totalCommitContributions
        /\ fetchPc[f] \in {"redisSet", "fulfilled"} => profile[f] # Undefined
        /\ fetchPc[f] = "rejected" => fetchErr[f] \in Errors

C21_Witness ==
    \E f \in Calls :
        /\ fetchPc[f] = "fulfilled"
        /\ user[f] = UserTwo
        /\ profile[f].stats.prs = 3
        /\ profile[f].stats.issues = 4
        /\ profile[f].stats.commits = 0

(* ---------- the avatar ---------- *)

\* C22: a failed avatar download never fails the fetch: the fetch goes on to
\* store and deliver a snapshot that keeps the remote avatar URL and has no
\* embedded avatar, otherwise the snapshot of a successful download, and the
\* local cache takes it as a fresh 30-minute entry just as it takes that one.
C22_FailedAvatarStep ==
    \A f \in Calls :
        /\ (fetchPc[f] = "avatar" /\ fetchPc'[f] # "avatar")
           => /\ fetchPc'[f] \in {"arrayBuffer", "avatarReturned"}
              /\ fetchPc'[f] = "avatarReturned" => ~fetchAvatar'[f]
        /\ (fetchPc[f] = "arrayBuffer" /\ fetchPc'[f] # "arrayBuffer")
           => fetchPc'[f] = "avatarReturned"
        /\ (fetchPc[f] = "avatarReturned" /\ fetchPc'[f] # "avatarReturned")
           => /\ fetchPc'[f] = IF HasClient THEN "redisSet" ELSE "fulfilled"
              /\ profile'[f].user.avatarUrl = user[f].avatarUrl
              /\ profile'[f].user.avatarDataUrl = fetchAvatar[f]
              /\ profile'[f] =
                   [BuildProfile(user[f], totalStars[f], langMap[f],
                                 callArgs[f].includeLanguages, TRUE)
                       EXCEPT !.user.avatarDataUrl = fetchAvatar[f]]
              /\ cache'[callKey[f]] =
                   [kind |-> "entry", expiresAt |-> now + 30 * 60 * 1000,
                    value |-> ProfileDataOf(callKey[f], f, fetchAvatar[f]),
                    inFlight |-> Undefined]

C22_FailedAvatarState ==
    \A f \in Calls :
        /\ fetchPc[f] = "rejected" => avatarReqs[f] = 0
        /\ (fetchPc[f] = "fulfilled" /\ ~fetchAvatar[f])
           => /\ profile[f].user.avatarDataUrl = FALSE
              /\ profile[f].user.avatarUrl = user[f].avatarUrl
              /\ HasClient <=> redisWrite[f] # "none"
        /\ \A c \in Calls :
            (callOut[c] = PromiseOut(f) /\ fetchPc[f] = "fulfilled")
            => Receives(c, ValueOut(ProfileOf(f)))

C22_AvatarFailureNotFatal ==
    /\ []C22_FailedAvatarState
    /\ [][C22_FailedAvatarStep]_vars

C22_Witness ==
    \E f \in Calls :
        /\ fetchPc[f] = "fulfilled"
        /\ avatarReqs[f] = 1
        /\ ~fetchAvatar[f]
        /\ profile[f].user.avatarDataUrl = FALSE
        /\ redisWrite[f] = "ok"
        /\ cache[callKey[f]] # Absent
        /\ cache[callKey[f]].value = ProfileOf(f)
        /\ redis[callKey[f]] # Absent
        /\ redis[callKey[f]].value = ProfileOf(f)

(* ---------- termination ---------- *)

\* the call waits for an answer of the shared cache: for its own redis.get,
\* or for the redis.set of the fetch it returned
AwaitsRedis(c) ==
    \/ callPc[c] = "awaitRedisGet"
    \/ /\ callOut[c].kind = "promise"
       /\ fetchPc[callOut[c].fetch] = "redisSet"

\* C23 as stated: every getProfileData call eventually completes with a
\* snapshot or an error.
C23_EveryCallCompletes ==
    \A c \in TwoCalls : Unsettled(c) ~> Settled(c)

\* a page request that ends without an answer fails the fetch as a
\* transport failure
C23_TimeoutStep ==
    \A f \in TwoCalls :
        (fetchPc[f] = "page" /\ res'[f] # res[f] /\ res'[f].kind = "transport")
        => fetchPc'[f] = "rejected" /\ fetchErr'[f] = "Transport"

\* what holds instead: a call that is not waiting for the shared cache
\* eventually completes with a snapshot or an error or comes to wait for
\* the shared cache; without a shared cache every call eventually
\* completes.  A page request that times out fails the fetch as a
\* transport failure.
CompletesUnlessRedisHangs ==
    /\ \A c \in TwoCalls : Unsettled(c) ~> (Settled(c) \/ AwaitsRedis(c))
    /\ \A c \in TwoCalls : (~redisOn /\ Unsettled(c)) ~> Settled(c)
    /\ [][C23_TimeoutStep]_vars

RedisHangs ==
    \E c, d \in TwoCalls :
        /\ c # d
        /\ pageCount[c] = maxPages
        /\ fetchPc[c] = "fulfilled"
        /\ ~fetchAvatar[c]
        /\ Settled(c) /\ Outcome(c).kind = "value"
        /\ fetchPc[d] = "rejected" /\ fetchErr[d] = "Transport"
        /\ Settled(d) /\ Outcome(d).kind = "error"

(* ---------- kFormat ---------- *)

\* kFormat was applied to n and returned
Formatted(n) == utilArgs.fn = "kFormat" /\ utilArgs.num = n /\ utilOut.kind = "value"

\* C24: for every non-negative integer n below 1000, kFormat(n) is the
\* plain decimal string of n, with no suffix.
C24_PlainBelowThousand ==
    (utilOut # NoOut /\ utilArgs.num \in 0..999)
    => utilOut = ValueOut(ToString(utilArgs.num))

C24_Witness ==
    /\ Formatted(999) /\ utilOut.value = "999"

\* num / den rounded to one decimal place, halves upwards, in tenths
HalfUpTenths(num, den) ==
    10 * (num \div den) + ((10 * (num % den) + (den \div 2)) \div den)

\* a number of tenths written with one decimal, a trailing ".0" removed
TenthsString(t) ==
    IF t % 10 = 0 THEN DecimalString(t \div 10)
    ELSE DecimalString(t \div 10) \o "." \o DigitChars[(t % 10) + 1]

\* C25: for every integer n with 1000 <= n < 1,000,000, kFormat(n) is n/1000
\* rounded to one decimal place, with a trailing '.0' removed, followed by
\* 'k'; for n >= 1,000,000 it is the same with n/1,000,000 and 'M'.
C25_RoundedToOneDecimal ==
    (utilOut # NoOut /\ utilArgs.num >= 1000)
    => utilOut.value =
        IF utilArgs.num >= 1000000
        THEN TenthsString(HalfUpTenths(utilArgs.num, 1000000)) \o "M"
        ELSE TenthsString(HalfUpTenths(utilArgs.num, 1000)) \o "k"

\* what kFormat does return from 1000 on: one of the one-decimal values
\* nearest to the quotient (either one when the quotient lies halfway
\* between two), a trailing '.0' removed, and the suffix
KFormatNearestTenth ==
    (utilOut # NoOut /\ utilArgs.num >= 1000)
    => LET den == IF utilArgs.num >= 1000000 THEN 1000000 ELSE 1000
           sfx == IF utilArgs.num >= 1000000 THEN "M" ELSE "k"
           n   == utilArgs.num
       IN  \E t \in {HalfUpTenths(n, den) - 1, HalfUpTenths(n, den)} :
              /\ utilOut.value = TenthsString(t) \o sfx
              /\ 2 * (10 * (n % den) - (t - 10 * (n \div den)) * den) <= den
              /\ 2 * ((t - 10 * (n \div den)) * den - 10 * (n % den)) <= den

\* the examples of the rule
KFormatExamples ==
    /\ Formatted(1000) => utilOut.value = "1k"
    /\ Formatted(1500) => utilOut.value = "1.5k"
    /\ Formatted(9999) => utilOut.value = "10k"
    /\ Formatted(1000000) => utilOut.value = "1M"
    /\ Formatted(1500000) => utilOut.value = "1.5M"
    /\ Formatted(1150) => utilOut.value = "1.1k"
    /\ Formatted(1050) => utilOut.value = "1.1k"

(* ---------- escapeXml ---------- *)

Specials == {"&", "<", ">", "\"", "'"}
Entities == {AMP, LT, GT, QUOT, APOS}

\* the entity of a special character, any other character itself
EntityOf(ch) ==
    CASE ch = "&" -> AMP
      [] ch = "<" -> LT
      [] ch = ">" -> GT
      [] ch = "\"" -> QUOT
      [] ch = "'" -> APOS
      [] OTHER -> <<ch>>

\* every character of the string replaced by its entity, once
RECURSIVE EachEscapedOnce(_)
EachEscapedOnce(str) ==
    IF str = <<>> THEN <<>> ELSE EntityOf(Head(str)) \o EachEscapedOnce(Tail(str))

\* an entity starts at position i of the string
EntityAt(str, i) ==
    \E e \in Entities :
        /\ i + Len(e) - 1 <= Len(str)
        /\ SubSeq(str, i, i + Len(e) - 1) = e

\* C26: the string escapeXml returns contains none of the raw characters
\* < > " ', every & in it starts one of the entities &amp; &lt; &gt; &quot;
\* &#39;, it is the argument with each special character replaced once (the
\* ampersands of the entities produced are not escaped again), and an
\* argument without the five characters is returned unchanged.
C26_EscapedOnce ==
    utilOut # NoOut
    => LET str == utilArgs.str
           out == utilOut.value
       IN  /\ \A i \in 1..Len(out) : out[i] \notin {"<", ">", "\"", "'"}
           /\ \A i \in 1..Len(out) : out[i] = "&" => EntityAt(out, i)
           /\ out = EachEscapedOnce(str)
           /\ (\A i \in 1..Len(str) : str[i] \notin Specials) => out = str

C26_Witness ==
    /\ utilArgs.fn = "escapeXml"
    /\ utilArgs.str = <<"<", "&", "'">>
    /\ utilOut = ValueOut(LT \o AMP \o APOS)

(* ---------- resolveColors ---------- *)

\* the theme a name stands for: the theme of that name, the 'default'
\* theme for an absent or unknown name
NamedTheme(t) ==
    IF Truthy(t) /\ t.value \in DOMAIN themes THEN themes[t.value] ELSE themes["default"]

\* C29: resolveColors never fails and returns, for each of the five colours
\* independently, the caller's override when one is given and otherwise the
\* colour of the named theme, an absent or unknown theme name meaning the
\* 'default' theme.
C29_OverrideElseTheme ==
    utilOut # NoOut
    => /\ utilOut.kind = "value"
       /\ \A color \in Colors :
            utilOut.value[color] =
                IF Truthy(utilArgs.opts[OverrideOf[color]])
                THEN utilArgs.opts[OverrideOf[color]]
                ELSE NamedTheme(utilArgs.opts.theme)[color]

\* what holds of every name: a name that is neither a theme nor a member
\* of Object.prototype means the 'default' theme
ResolveColorsOwnNames ==
    (utilOut # NoOut /\ ~(Truthy(utilArgs.opts.theme)
                          /\ utilArgs.opts.theme.value \in ObjectPrototypeKeys))
    => /\ utilOut.kind = "value"
       /\ \A color \in Colors :
            utilOut.value[color] =
                IF Truthy(utilArgs.opts[OverrideOf[color]])
                THEN utilArgs.opts[OverrideOf[color]]
                ELSE NamedTheme(utilArgs.opts.theme)[color]

(* ---------- renderCard ---------- *)

\* renderCard was called and returned a card
Rendered == utilArgs.fn = "renderCard" /\ utilOut.kind = "value"

\* the digit a character stands for
DigitValue(ch) == CHOOSE d \in 0..9 : DigitChars[d + 1] = ch

\* the integer of a string of digits, after n
RECURSIVE ReadInt(_, _)
ReadInt(str, n) ==
    IF str = "" THEN n ELSE ReadInt(Tail(str), 10 * n + DigitValue(Head(str)))

\* the place of the first ch in str from place i on, Len(str) + 1 without one
RECURSIVE IndexOf(_, _, _)
IndexOf(str, ch, i) ==
    IF i > Len(str) \/ SubSeq(str, i, i) = ch THEN i ELSE IndexOf(str, ch, i + 1)

\* the number of a string of digits, four digits at a time from the right
RECURSIVE ReadBig(_)
ReadBig(str) ==
    IF Len(str) <= 4 THEN <<ReadInt(str, 0)>>
    ELSE <<ReadInt(SubSeq(str, Len(str) - 3, Len(str)), 0)>>
            \o ReadBig(SubSeq(str, 1, Len(str) - 4))

\* 10^k
RECURSIVE PowerOfTen(_)
PowerOfTen(k) == IF k = 0 THEN 1 ELSE 10 * PowerOfTen(k - 1)

\* a * 10^k
BigTimesTen(a, k) ==
    IF a = <<>> THEN <<>>
    ELSE [i \in 1..(k \div 4) |-> 0] \o BigMulSmall(a, PowerOfTen(k % 4))

\* the number an attribute value such as 136.79999999999998 or 4.56e-7
\* stands for, in units of 10^-30
ValueOf(str) ==
    LET e      == IndexOf(str, "e", 1)
        point  == IndexOf(str, ".", 1)
        whole  == SubSeq(str, 1, (IF point < e THEN point ELSE e) - 1)
        places == IF point < e THEN SubSeq(str, point + 1, e - 1) ELSE ""
        ex     == IF e > Len(str) THEN 0
                  ELSE IF SubSeq(str, e + 1, e + 1) = "-"
                  THEN 0 - ReadInt(SubSeq(str, e + 2, Len(str)), 0)
                  ELSE ReadInt(SubSeq(str, e + 2, Len(str)), 0)
    IN  BigTimesTen(BigTrim(ReadBig(whole \o places)), 30 - Len(places) + ex)

\* the sum of the widths of the segments, in units of 10^-30
RECURSIVE WidthSum(_)
WidthSum(rects) ==
    IF rects = <<>> THEN <<>>
    ELSE BigAdd(ValueOf(Head(rects).width), WidthSum(Tail(rects)))

\* the attribute value is the number n / d
IsExactly(str, n, d) == BigMul(ValueOf(str), BigOf(d)) = BigTimesTen(n, 30)

\* the attribute value is within 10^-12 of the number n / d
IsNear(str, n, d) ==
    LET a == BigMul(ValueOf(str), BigOf(d))
        b == BigTimesTen(n, 30)
    IN  BigCmp(IF BigCmp(a, b) >= 0 THEN BigSub(a, b) ELSE BigSub(b, a),
               BigTimesTen(BigOf(d), 18)) <= 0

\* size * 456 of the first i languages, summed
RECURSIVE WidthsBefore(_, _)
WidthsBefore(langs, i) ==
    IF i = 0 THEN <<>>
    ELSE BigAdd(BigMul(BigOf(langs[i].size), BigOf(456)), WidthsBefore(langs, i - 1))

\* C27: the width of language segment i is size_i / total x 456, total the
\* sum of all sizes, and its x position the left padding plus the sum of the
\* widths of the segments before it in the given order; so sizes 7000 and
\* 3000 give widths in the ratio 7:3 and the widths sum to the bar width
\* when total > 0; when total is 0 the divisor is 1 and every width is 0.
C27_SegmentWidths ==
    Rendered
    => LET langs == utilArgs.langs
           rects == utilOut.value.langRects
           total == SumSizes(langs)
           div   == IF total = 0 THEN 1 ELSE total
       IN  /\ Len(rects) = Len(langs)
           /\ \A i \in 1..Len(rects) :
                /\ IsExactly(rects[i].width,
                             BigMul(BigOf(langs[i].size), BigOf(456)), div)
                /\ BigSub(ValueOf(rects[i].x), ValueOf("22"))
                      = WidthSum(SubSeq(rects, 1, i - 1))
                /\ rects[i].fill = langs[i].color
           /\ (total > 0) => WidthSum(rects) = ValueOf("456")
           /\ (total = 0) => \A i \in 1..Len(rects) : rects[i].width = "0"
           /\ (Len(langs) = 2 /\ langs[1].size = 7000 /\ langs[2].size = 3000)
              => BigMulSmall(ValueOf(rects[1].width), 3)
                    = BigMulSmall(ValueOf(rects[2].width), 7)

\* C27 as it holds: width and x of segment i are the Numbers the code
\* computes, (size_i / total) * 456 and 22 + offset with offset the running
\* sum of the widths before it, printed by String; each is within 10^-12 of
\* the exact value, and so is the sum of the widths of 456 when total > 0;
\* when total is 0 the divisor is 1, every width is 0 and every x is 22.
C27_SegmentWidthsAsNumbers ==
    Rendered
    => LET langs == utilArgs.langs
           rects == utilOut.value.langRects
           total == SumSizes(langs)
           div   == IF total = 0 THEN 1 ELSE total
       IN  /\ Len(rects) = Len(langs)
           /\ \A i \in 1..Len(rects) :
                /\ IsNear(rects[i].width,
                          BigMul(BigOf(langs[i].size), BigOf(456)), div)
                /\ IsNear(rects[i].x,
                          BigAdd(BigMul(BigOf(22), BigOf(div)),
                                 WidthsBefore(langs, i - 1)), div)
                /\ rects[i].fill = langs[i].color
           /\ (total > 0)
              => LET sum == WidthSum(rects)
                     bar == ValueOf("456")
                 IN  BigCmp(IF BigCmp(sum, bar) >= 0 THEN BigSub(sum, bar)
                            ELSE BigSub(bar, sum),
                            BigTimesTen(<<1>>, 18)) <= 0
           /\ (total = 0)
              => \A i \in 1..Len(rects) : rects[i].width = "0" /\ rects[i].x = "22"

C27_Witness ==
    /\ Rendered
    /\ Len(utilArgs.langs) = 2
    /\ utilArgs.langs[1].size = 7000 /\ utilArgs.langs[2].size = 3000
    /\ utilOut.value.langRects[1].x = "22"
    /\ utilOut.value.langRects[1].width = "319.2"
    /\ utilOut.value.langRects[2].x = "341.2"
    /\ utilOut.value.langRects[2].width = "136.79999999999998"

\* C28: a card rendered with compact = true has no bio text, no pronouns, no
\* secondary-handle text and no language percentage labels, whatever the
\* profile contains, and still has the language colour bar segments and all
\* five stat counters.
C28_CompactCard ==
    (utilOut # NoOut /\ utilArgs.opts.compact = Bool(TRUE)
        /\ utilArgs.user # Undefined /\ NonEmpty(utilArgs.user.login)
        /\ utilArgs.stats # Undefined)
    => /\ utilOut.kind = "value"
       /\ utilOut.value.bio = <<>>
       /\ utilOut.value.pronouns = <<>>
       /\ utilOut.value.twitter = <<>>
       /\ utilOut.value.langLabels = <<>>
       /\ ~utilOut.value.textCss
       /\ Len(utilOut.value.langRects) = Len(utilArgs.langs)
       /\ \A i \in 1..Len(utilArgs.langs) :
            utilOut.value.langRects[i].fill = utilArgs.langs[i].color
       /\ (utilArgs.stats = [stars |-> 1500, commits |-> 999, issues |-> 0,
                             repos |-> 12, prs |-> 1000000])
          => utilOut.value.stats = [stars |-> "1.5k", commits |-> "999",
                                    issues |-> "0", repos |-> "12", prs |-> "1M"]

C28_Witness ==
    /\ Rendered
    /\ utilArgs.opts.compact = Bool(TRUE)
    /\ utilArgs.user.bio = Str(LongBio)
    /\ utilArgs.user.pronouns # Undefined
    /\ utilArgs.user.twitter # Undefined
    /\ Len(utilArgs.langs) = 5
    /\ Len(utilOut.value.langRects) = 5
    /\ utilOut.value.langRects[5].fill = "#701516"
    /\ utilOut.value.bio = <<>>
    /\ utilOut.value.langLabels = <<>>
    /\ utilOut.value.stats.stars = "1.5k"
    /\ utilOut.value.stats.prs = "1M"

\* the text parts of a card that is not compact
CardTextWhenNotCompact ==
    (Rendered /\ ~OrFalse(utilArgs.opts.compact))
    => /\ NonEmpty(utilArgs.user.pronouns) => utilOut.value.pronouns # <<>>
       /\ NonEmpty(utilArgs.user.twitter) => utilOut.value.twitter # <<>>
       /\ ~NonEmpty(utilArgs.user.bio)
       /\ utilOut.value.bio = <<>>
       /\ Len(utilOut.value.langLabels) = Len(utilArgs.langs)

\* the login or the stats object is missing
InvalidInput ==
    \/ utilArgs.user = Undefined
    \/ ~NonEmpty(utilArgs.user.login)
    \/ utilArgs.stats = Undefined

\* C30: renderCard fails only when the login or the stats object is missing;
\* with both present it returns a complete card for any combination of null
\* name, bio, pronouns, secondary handle or avatar and for an empty language
\* list, and a null or empty name is replaced by the login in the title.
C30_FailsOnlyOnInvalidInput ==
    utilOut # NoOut
    => /\ InvalidInput => utilOut.kind = "error"
       /\ ~InvalidInput
          => /\ utilOut.kind = "value"
             /\ utilOut.value.title =
                    escapeXml(IF NonEmpty(utilArgs.user.name)
                              THEN utilArgs.user.name.value
                              ELSE utilArgs.user.login.value)
             /\ utilOut.value.uname = escapeXml(utilArgs.user.login.value)

\* what holds of every call: the two invalid-input errors, and a complete
\* card when wrapText is not called (no bio, or compact)
RenderCardOutcomes ==
    utilOut # NoOut
    => /\ (utilArgs.user = Undefined \/ ~NonEmpty(utilArgs.user.login))
          => utilOut = ErrorOut("Invalid user data: missing login")
       /\ (~InvalidInput
             /\ (OrFalse(utilArgs.opts.compact) \/ ~NonEmpty(utilArgs.user.bio)))
          => /\ utilOut.kind = "value"
             /\ utilOut.value.title =
                    escapeXml(IF NonEmpty(utilArgs.user.name)
                              THEN utilArgs.user.name.value
                              ELSE utilArgs.user.login.value)
             /\ Len(utilOut.value.langRects) = Len(utilArgs.langs)

(* ---------- pagination ---------- *)

\* C31: after page k is processed the fetch requests page k+1 exactly when
\* page k reported hasNextPage = true, returned at least one repository and
\* k < 10, and otherwise goes on to the avatar.
C31_NextPageStep ==
    \A f \in Calls :
        (fetchPc[f] = "json" /\ Len(body'[f]) = Len(body[f]) + 1)
        => LET k     == pageReqs[f]
               nodes == body'[f][Len(body'[f])].nodes
               more  == res'[f].hasNextPage /\ nodes # <<>> /\ k < 10
           IN  /\ Len(body'[f]) = k
               /\ more => (pageReqs'[f] = k + 1 /\ fetchPc'[f] = "page")
               /\ ~more => (pageReqs'[f] = k /\ fetchPc'[f] = "avatar")

\* a fetch that stopped after 10 pages while more remained is not rejected:
\* it goes on with the aggregate of the 10 pages
C31_CapState ==
    \A f \in Calls :
        (Len(body[f]) = 10 /\ res[f].kind = "ok" /\ res[f].hasNextPage)
        => /\ fetchPc[f] \in {"avatar", "arrayBuffer", "avatarReturned", "redisSet",
                           "fulfilled"}
           /\ pageReqs[f] = 10
           /\ totalStars[f] = StarSum(NodesOf(body[f]))
           /\ profile[f] # Undefined
              => profile[f].stats.stars = StarSum(NodesOf(body[f]))
           /\ \A c \in Calls :
                (callOut[c] = PromiseOut(f) /\ fetchPc[f] = "fulfilled")
                => Receives(c, ValueOut(ProfileOf(f)))

C31_PaginationLoop ==
    /\ []C31_CapState
    /\ [][C31_NextPageStep]_vars

C31_Witness ==
    \E f \in Calls :
        /\ fetchPc[f] = "fulfilled"
        /\ pageReqs[f] = 10
        /\ Len(body[f]) = 10
        /\ res[f].hasNextPage
        /\ profile[f].stats.stars = 10

(* ---------- wrapText ---------- *)

Wrapped == utilArgs.fn = "wrapText" /\ utilOut.kind = "value"

\* C32: wrapText never returns more than maxLines lines, for maxLen >= 1 and
\* maxLines >= 1, and returns the empty list for the empty input.
C32_AtMostMaxLines ==
    Wrapped
    => /\ Len(utilOut.value) <= utilArgs.maxLines
       /\ utilArgs.input = <<>> => utilOut.value = <<>>

\* the text ran over the line limit: the last line is cut and ends in an ellipsis
C32_Witness ==
    /\ Wrapped
    /\ utilArgs.input = <<"a", "b", " ", "a", " ", "b">>
    /\ utilArgs.maxLen = 2
    /\ utilArgs.maxLines = 2
    /\ utilOut.value = <<<<"a", "b">>, <<"a", Ellipsis>>>>

\* C33: every line wrapText returns has at most maxLen + 1 characters, also
\* when the input holds a single word longer than maxLen.
C33_LineLength ==
    Wrapped
    => \A i \in 1..Len(utilOut.value) :
          Len(utilOut.value[i]) <= utilArgs.maxLen + 1

\* what holds instead: a line longer than maxLen is a single word of the input
WrapLineLength ==
    Wrapped
    => \A i \in 1..Len(utilOut.value) :
          LET line == utilOut.value[i]
          IN  \/ Len(line) <= utilArgs.maxLen
              \/ \A j \in 1..Len(line) : ~IsSpace(line[j]) /\ line[j] # Ellipsis

(* ---------- the in-flight counter ---------- *)

\* a fetch settles, or starts and fails at once for the missing token
C34_CounterStep ==
    \A f \in Calls :
        /\ (IsPending(f) /\ ~IsPending(f)')
           => /\ fetchPc'[f] \in {"fulfilled", "rejected"}
              /\ inFlightCount' = inFlightCount - 1
        /\ (fetchPc[f] = "none" /\ fetchPc'[f] = "rejected")
           => /\ fetchErr'[f] = "MissingToken"
              /\ inFlightCount' = inFlightCount
        /\ (fetchPc[f] \in {"fulfilled", "rejected"})
           => (fetchPc'[f] = fetchPc[f] /\ inFlightCount' <= inFlightCount + 1)

\* C34: the in-flight counter equals the number of fetches started and not
\* yet settled; it is never negative, is 0 when no fetch runs, and every
\* fetch decrements it exactly once when it settles, a fetch that fails for
\* the missing token before its first request included.
C34_CounterState ==
    /\ inFlightCount = RunningFetches
    /\ inFlightCount >= 0
    /\ (others = 0 /\ \A f \in Calls : ~IsPending(f)) => inFlightCount = 0

C34_CounterMatchesRunning ==
    /\ []C34_CounterState
    /\ [][C34_CounterStep]_vars

\* one fetch failed after a request while another fetch and fetches of other
\* keys are running
C34_Witness ==
    \E f, g \in Calls :
        /\ fetchPc[f] = "rejected"
        /\ pageReqs[f] >= 1
        /\ IsPending(g)
        /\ others > 0
        /\ inFlightCount = others + 1

\* a fetch failed for the missing token and the counter is back at 0
MissingTokenLeavesCount ==
    \E f \in Calls :
        /\ fetchPc[f] = "rejected"
        /\ fetchErr[f] = "MissingToken"
        /\ inFlightCount = 0

(* ---------- a failing fetch and the local cache ---------- *)

\* fetch f fails in this step, after at least one request
FailsNow(f) == IsPending(f) /\ fetchPc'[f] = "rejected"

\* C35: a failing fetch removes only its own placeholder: a snapshot that a
\* shared-cache hit of another call stored in the local cache while the fetch
\* was running is still there after the failure.
C35_FailureStep ==
    \A f \in Calls :
        (FailsNow(f) /\ HoldsSnapshot(cache, callKey[f]))
        => cache'[callKey[f]] = cache[callKey[f]]

C35_FailureKeepsSnapshot == [][C35_FailureStep]_vars

\* what the failure does: the key has no entry afterwards, whatever it held
FailureDeletesEntry ==
    [][\A f \in Calls : FailsNow(f) => cache'[callKey[f]] = Absent]_vars

\* the snapshot of a shared-cache hit replaced the placeholder of a running fetch
SnapshotOverPlaceholder ==
    \E f \in Calls :
        /\ fetchPc[f] = "page"
        /\ HoldsSnapshot(cache, callKey[f])
        /\ BuiltByOther(cache[callKey[f]].value)

(* ---------- de-duplication at the ceiling ---------- *)

\* call c passes both cache layers without a hit in this step while the
\* counter is at the ceiling
PastCachesAtCeiling(c) ==
    /\ callPc[c] \in {"awaitGetRedis", "awaitRedisGet"}
    /\ callPc'[c] = "done"
    /\ callOut'[c].kind # "value"
    /\ inFlightCount >= MAX_IN_FLIGHT_REQUESTS

\* call c joins a running fetch of its key in this step
JoinsRunning(c) ==
    \E f \in Calls :
        /\ IsPending(f)
        /\ callKey[f] = callKey[c]
        /\ callOut'[c] = PromiseOut(f)
        /\ inFlightCount' = inFlightCount

\* C36: the ceiling only limits new fetches: a call for a key that already
\* has a running fetch joins that fetch even when 100 fetches are running.
C36_JoinStep ==
    \A c \in Calls :
        (/\ PastCachesAtCeiling(c)
         /\ \E f \in Calls : IsPending(f) /\ callKey[f] = callKey[c])
        => JoinsRunning(c)

C36_JoinsAtCeiling == [][C36_JoinStep]_vars

\* what holds: the call joins when the entry of its key still is the
\* placeholder of the running fetch
JoinsPlaceholderAtCeiling ==
    [][\A c \in Calls :
          (/\ PastCachesAtCeiling(c)
           /\ HasInFlight(cache[callKey[c]])
           /\ IsPending(cache[callKey[c]].inFlight.promise))
          => JoinsRunning(c)]_vars

\* a call joined a fetch that is still running while 100 fetches run
JoinedAtCeiling ==
    \E c, f \in Calls :
        /\ c # f
        /\ callOut[c] = PromiseOut(f)
        /\ IsPending(f)
        /\ inFlightCount = MAX_IN_FLIGHT_REQUESTS

(* ---------- the age of a returned snapshot ---------- *)

TtlMs == CACHE_TTL_SECONDS * 1000

\* call c is answered by the local cache in this step
LocalReturn(c) ==
    callPc[c] = "idle" /\ callPc'[c] = "done" /\ callOut'[c].kind = "value"

\* Date.now() when the fetch that built snapshot v completed
FetchedAt(v) == IF BuiltByOther(v) THEN (0 - v.by) * TickMs ELSE fetchedAt[v.by]

\* the time since then
AgeOf(v) == now - FetchedAt(v)

\* C37 as stated: every snapshot returned from the local cache was produced
\* by an upstream fetch that completed less than 30 minutes before the
\* call, also when a shared-cache hit populated the local entry.
C37_FreshStep ==
    \A c \in Calls :
        LocalReturn(c)
        => /\ FetchedAt(callOut'[c].value) # Never
           /\ AgeOf(callOut'[c].value) < TtlMs

C37_FreshFromLocal == [][C37_FreshStep]_vars

\* a local return gives the snapshot of the entry, which was stored less
\* than 30 minutes before
C37_ReturnStep ==
    \A c \in Calls :
        LocalReturn(c)
        => LET e == cache[callKey'[c]]
           IN  /\ e # Absent
               /\ callOut'[c].value = e.value
               /\ e.expiresAt - TtlMs <= now
               /\ now < e.expiresAt

\* a snapshot enters the local cache in two ways only: the fetch that
\* built it stores it as it builds it, or a call stores the snapshot of a
\* shared-cache hit, which the shared cache held short of its expiry;
\* either way the entry expires 30 minutes after the step
C37_StoredStep ==
    \A k \in CacheKeys :
        (cache'[k] # cache[k] /\ HoldsSnapshot(cache', k))
        => /\ cache'[k].expiresAt = now + TtlMs
           /\ \/ \E f \in Calls :
                    /\ fetchPc[f] = "avatarReturned" /\ fetchPc'[f] # "avatarReturned"
                    /\ callKey[f] = k
                    /\ cache'[k].value = ProfileDataOf(k, f, fetchAvatar[f])
                    /\ fetchedAt'[f] = now
              \/ \E c \in Calls :
                    /\ callPc[c] = "awaitRedisGet" /\ redisReply'[c] = "hit"
                    /\ callKey[c] = k
                    /\ redis[k] # Absent
                    /\ cache'[k].value = redis[k].value

\* a shared-cache hit: the snapshot was written to the shared cache less
\* than 30 minutes before, whenever it was built, and the local entry
\* expires a full TTL after the hit, less than one TTL after the shared
\* entry does
C37_HitStep ==
    \A c \in Calls :
        (callPc[c] = "awaitRedisGet" /\ redisReply'[c] = "hit")
        => LET k == callKey[c]
               writtenAt == redis[k].expiresAt - TtlMs
           IN  /\ redis[k] # Absent
               /\ callOut'[c] = ValueOut(redis[k].value)
               /\ writtenAt <= now
               /\ now < redis[k].expiresAt
               /\ cache'[k].value = redis[k].value
               /\ cache'[k].expiresAt = now + TtlMs
               /\ cache'[k].expiresAt < redis[k].expiresAt + TtlMs

\* C37 as amended: every snapshot returned from the local cache was stored
\* there less than 30 minutes before the call, by the fetch that built it
\* as it built it or by a shared-cache hit; a hit stores the snapshot with
\* a fresh 30-minute expiry whatever its age, the shared cache having held
\* it for less than 30 minutes.
C37_FreshSinceStored == [][C37_ReturnStep /\ C37_StoredStep /\ C37_HitStep]_vars

\* a call was answered from the local cache with a snapshot another instance
\* built 30 minutes or more before
C37_Witness ==
    \E c \in Calls :
        /\ callPc[c] = "done"
        /\ callLog[c] = <<"local">>
        /\ callOut[c].kind = "value"
        /\ BuiltByOther(callOut[c].value)
        /\ cache[callKey[c]] # Absent
        /\ cache[callKey[c]].value = callOut[c].value
        /\ cache[callKey[c]].expiresAt > now
        /\ AgeOf(callOut[c].value) >= TtlMs

(* ---------- kFormat at the unit boundaries ---------- *)

\* the numbers below 1000 with at most one decimal, as kFormat writes them
BelowThousand == {TenthsString(t) : t \in 0..9999}

\* the results whose numeric part is below 1000: plain, or with the suffix k
PlainOrThousands == BelowThousand \cup {x \o "k" : x \in BelowThousand}

\* the results in millions of the numbers formatted
Millions == {TenthsString(t) \o "M" : t \in 10..10000}

\* C38: for 0 <= n < 1,000,000 the numeric part of kFormat(n) is below 1000,
\* and for n >= 1,000,000 the result ends in 'M': a value just under a unit
\* boundary is never written '1000k'.
C38_NumericPartBelowThousand ==
    (utilOut # NoOut /\ utilArgs.num >= 0)
    => IF utilArgs.num >= 1000000
       THEN utilOut.value \in Millions
       ELSE utilOut.value \in PlainOrThousands /\ utilOut.value # "1000k"

\* what holds: below 999,950 the numeric part is below 1000; from 999,950 to
\* 999,999 the result is '1000k'; from 1,000,000 on the suffix is M
KFormatBoundaries ==
    (utilOut # NoOut /\ utilArgs.num >= 0)
    => IF utilArgs.num >= 1000000 THEN utilOut.value \in Millions
       ELSE IF utilArgs.num >= 999950 THEN utilOut.value = "1000k"
       ELSE utilOut.value \in PlainOrThousands

ThousandK == utilArgs.num = 999950 /\ utilOut = ValueOut("1000k")

====
